---- MODULE Spec2Model ----
(***************************************************************************)
(* Permission gating and synchronisation core of the shared to-do list:    *)
(* AuthService, TodoService and the legacy FirebaseTodoApp, over a model   *)
(* of the hosted document store.                                           *)
(*                                                                         *)
(* Granularity: one step per synchronous run of JavaScript.  A handler is  *)
(* cut at each await; the awaited backend call takes effect (or fails) in  *)
(* the step in which the await resumes.  Identity events arrive from the   *)
(* identity provider at any time, also between two steps of one handler.   *)
(***************************************************************************)
EXTENDS Integers, FiniteSets, Sequences, TLC

\* ---------------------------------------------------------------- bounds
MaxLookups == 1
MaxReqDocs == 2
MaxPermDocs == 2
MaxAdminCalls == 2
MaxTodos == 1
MaxListLen == 40
MaxStored == 2
MaxRequests == 2
MaxFeeds == 2
MaxLocal == 2
MaxHandles == 2

\* ------------------------------------------------------------- constants
NULL == "null"
ADMIN_EMAIL == "plaza.stephen@gmail.com"
Users == {"admin", "u1", "u2"}
Statuses == {"pending", "approved", "denied"}

Email(u) == IF u = "admin" THEN ADMIN_EMAIL ELSE u

\* The cached permission object when it is null.
NoPerm == [id |-> 0, uid |-> NULL, status |-> NULL]
\* The literal { status: 'pending' } that submitAccessRequest caches.
LocalPending == [id |-> 0, uid |-> NULL, status |-> "pending"]

\* Inputs of submitAccessRequest: strings over a blank and a letter.
Reasons == {<<>>, <<" ">>, <<"a">>, <<" ", "a">>}

\* String.prototype.trim: leading and trailing blanks removed.
RECURSIVE TrimLeft(_)
TrimLeft(s) == IF s # <<>> /\ Head(s) = " " THEN TrimLeft(Tail(s)) ELSE s
RECURSIVE TrimRight(_)
TrimRight(s) == IF s # <<>> /\ s[Len(s)] = " " THEN TrimRight(SubSeq(s, 1, Len(s) - 1)) ELSE s
\* A trim that removes nothing.
TrimNothing(s) == s

Trim(s) == TrimRight(TrimLeft(s))

NoSubmit == [pc |-> "idle"]
NoEvent == [op |-> "none"]

\* 'approved' for approveRequest, 'denied' for denyRequest.
ReviewStatus(kind) == IF kind = "approve" THEN "approved" ELSE "denied"

NoCall == [pc |-> "idle"]
NoToggles == [n |-> 0]
NoRequest == [pc |-> "none"]

\* A todos subscription not opened yet. state: unused, open, closed (its
\* unsubscribe handle was called) or failed (it reported an error; the backend
\* sends a failed listener no further event). last is the snapshot it
\* delivered last, delivered tells whether it delivered any, released counts
\* the calls of its unsubscribe handle.
NoFeed == [state |-> "unused", last |-> <<>>, delivered |-> FALSE, released |-> 0]

\* The awaits of TodoApp.initializeServices, in order.
InitAwaits == {"firebase", "auth", "todo"}
NoInits == [a \in InitAwaits |-> 0]

\* The callbacks the components register with onTodosChange when TodoApp
\* constructs them: TodoListComponent first, then ActionsComponent.
ComponentCallbacks == <<"todoList", "actions">>

NoClaudeCall == [pc |-> "idle"]

\* The callbacks the components register with onAuthStateChange when TodoApp
\* constructs them: AuthComponent, then AdminComponent, then ActionsComponent.
AuthCallbacks == <<"auth", "admin", "actions">>

\* The page before any component has written a display.
NothingShown == [section |-> "none", input |-> FALSE, actions |-> FALSE, summary |-> FALSE, adminPanel |-> FALSE]

\* What the user answers to the key prompt: cancel, nothing, a key.
ApiKeyInputs == {NULL, "", "sk-key"}

\* Inputs of addTodo: the text (strings as above) and the optional file.
Texts == {<<>>, <<" ">>, <<"a">>, <<"a", " ">>}
Files == {NULL, "photo.png"}

\* Inputs of the local-storage TodoApp: the input field's value (characters
\* over a blank, a letter, the double quote and the backslash) and the
\* values Date.now() returns.
LocalInputs == {<<>>, <<" ">>, <<"a">>, <<" ", "a">>, <<"\"">>, <<"a", "\\">>}
Clock == {1, 2}

\* Callbacks a caller registers with onAuthStateChange and onTodosChange.
Callbacks == {"f", "g"}

\* localStorage.getItem of a key that was never set returns null, which
\* JSON.parse reads as the text null.
NoItem == <<"null">>

VARIABLES
    currentUser,      \* AuthService.currentUser: a uid or NULL
    userPermissions,  \* AuthService.userPermissions: a record, NoPerm for null
    lookups,          \* pending handleAuthStateChange lookups: uid -> count
    submitCall,       \* the submitAccessRequest call in flight
    adminCalls,       \* approveRequest / denyRequest calls in flight
    reqDocs,          \* store collection accessRequests
    permDocs,         \* store collection userPermissions
    todoDocs,         \* store collection todos
    nextTodoId,       \* creation order of the todos (stands for createdAt)
    todos,            \* TodoService.todos: the last snapshot pushed
    todoCall,         \* the TodoService call in flight
    deletesInFlight,  \* ids of issued deleteDocument calls not yet settled
    toggled,          \* history: the successive toggles of one item from its rendered flag
    fbCurrentUser,    \* FirebaseTodoApp.currentUser: a uid or NULL
    fbUserPermissions, \* FirebaseTodoApp.userPermissions
    fbLookups,        \* pending FirebaseTodoApp.checkUserPermissions queries
    fbCalls,          \* FirebaseTodoApp approveRequest / denyRequest calls in flight
    requests,         \* the relay's POST /api/claude requests: id -> progress
    unsubscribe,      \* TodoService.unsubscribe: the feed whose handle is held, 0 for null
    feeds,            \* the todos subscriptions ever opened: id -> progress
    todoListeners,    \* TodoService.todoListeners: the registered callbacks, in order
    initialized,      \* TodoApp.initialized
    initCalls,        \* TodoApp.init calls in flight: await reached -> count
    firebaseReady,    \* FirebaseService.initialized
    authObserved,     \* AuthService.initialize has registered its identity callback
    claudeApiKey,     \* ClaudeService.apiKey: a key or NULL
    storedKey,        \* localStorage item claude_api_key: a key or NULL
    claudeCall,       \* the ClaudeService call in flight
    authStateListeners, \* AuthService.authStateListeners: the registered callbacks, in order
    shown,            \* the page: the section displayed and the controls displayed
    adminUnsubscribe, \* AdminComponent.unsubscribe: the feed whose handle is held, 0 for null
    adminFeeds,       \* the accessRequests subscriptions of AdminComponent: id -> progress
    accessRequests,   \* AdminComponent.accessRequests: the ids of the requests cached
    handles,          \* the unsubscribe functions onTodosChange / onAuthStateChange returned
    localTodos,       \* the local-storage TodoApp's todos
    savedTodos,       \* localStorage item todos: the JSON text, NULL when absent
    ev                \* the last handler step that finished, with its outcome

authVars == <<currentUser, userPermissions, lookups>>
permVars == <<submitCall, adminCalls, reqDocs, permDocs>>
todoVars == <<todoDocs, nextTodoId, todos, todoCall, deletesInFlight, toggled>>
legacyVars == <<fbCurrentUser, fbUserPermissions, fbLookups, fbCalls>>

relayVars == <<requests>>
appVars == <<unsubscribe, feeds, todoListeners, initialized, initCalls, firebaseReady, authObserved>>
claudeVars == <<claudeApiKey, storedKey, claudeCall>>
uiVars == <<authStateListeners, shown, adminUnsubscribe, adminFeeds, accessRequests>>
handleVars == <<handles>>
localVars == <<localTodos, savedTodos>>
restVars == <<uiVars, handleVars, localVars>>
vars == <<authVars, permVars, todoVars, legacyVars, relayVars, appVars, claudeVars, restVars, ev>>

\* ------------------------------------------------------------------ store
PermsOf(uid) == {p \in permDocs : p.uid = uid}

\* getDocuments('userPermissions', where uid == ...): the matching documents in
\* the store's default order (by document id); [0] is the one of least id.
FirstPerm(uid) == CHOOSE p \in PermsOf(uid) : \A q \in PermsOf(uid) : p.id <= q.id

ReqDoc(id) == CHOOSE r \in reqDocs : r.id = id
PermDoc(id) == CHOOSE q \in permDocs : q.id = id

FreeReqIds == (1..MaxReqDocs) \ {r.id : r \in reqDocs}
FreePermIds == (1..MaxPermDocs) \ {p.id : p \in permDocs}

\* updateDocument(collection, id, {status, ...}) applied to the store.
UpdateReq(id, status, by) == {IF r.id = id THEN [r EXCEPT !.status = status, !.reviewedBy = by] ELSE r : r \in reqDocs}
UpdatePerm(id, status) == {IF p.id = id THEN [p EXCEPT !.status = status] ELSE p : p \in permDocs}

\* ------------------------------------------------------------ AuthService
isAdmin == currentUser # NULL /\ Email(currentUser) = ADMIN_EMAIL

isAuthenticated == currentUser # NULL

isApproved == isAdmin \/ userPermissions.status = "approved"

\* The access test without the approval.
canAccessClaudeWhenSignedIn == isAuthenticated

canAccessClaude == isAuthenticated /\ isApproved

\* getUserStatus with the cached record consulted before the admin address.
getUserStatusRecordFirst ==
    IF currentUser = NULL THEN "unauthenticated"
    ELSE IF userPermissions.status # NULL THEN userPermissions.status
    ELSE IF isAdmin THEN "admin"
    ELSE "new"

getUserStatus ==
    IF currentUser = NULL THEN "unauthenticated"
    ELSE IF isAdmin THEN "admin"
    ELSE IF userPermissions.status # NULL THEN userPermissions.status
    ELSE "new"

RECURSIVE SumOver(_, _)
SumOver(f, S) == IF S = {} THEN 0 ELSE LET x == CHOOSE y \in S : TRUE IN f[x] + SumOver(f, S \ {x})

NumLookups == SumOver(lookups, Users)

\* ----------------------------------------------------------- initial states
\* After construction: nobody signed in, nothing cached, nothing in flight.
Constructed ==
    /\ currentUser = NULL
    /\ userPermissions = NoPerm
    /\ lookups = [u \in Users |-> 0]
    /\ submitCall = NoSubmit
    /\ adminCalls = {}
    /\ todos = <<>>
    /\ todoCall = NoCall
    /\ deletesInFlight = {}
    /\ toggled = NoToggles
    /\ requests = [r \in 1..MaxRequests |-> NoRequest]
    /\ claudeCall = NoClaudeCall
    /\ shown = NothingShown
    /\ adminUnsubscribe = 0
    /\ adminFeeds = [s \in 1..MaxFeeds |-> NoFeed]
    /\ accessRequests = <<>>
    /\ handles = <<>>
    /\ localTodos = <<>>
    /\ savedTodos = NoItem
    /\ fbCurrentUser = NULL
    /\ fbUserPermissions = NoPerm
    /\ fbLookups = [u \in Users |-> 0]
    /\ fbCalls = {}
    /\ ev = NoEvent

\* The page before TodoApp.init ran: no subscription, no listener, no key read.
AppConstructed ==
    /\ unsubscribe = 0
    /\ feeds = [s \in 1..MaxFeeds |-> NoFeed]
    /\ todoListeners = <<>>
    /\ initialized = FALSE
    /\ initCalls = NoInits
    /\ firebaseReady = FALSE
    /\ authObserved = FALSE
    /\ authStateListeners = <<>>
    /\ claudeApiKey = NULL

\* The page after one TodoApp.init ran to its end: the services are
\* initialized, the first subscription is open and its handle held, the two
\* components have registered their callbacks, the stored key is loaded.
AppStarted ==
    /\ unsubscribe = 1
    /\ feeds = [s \in 1..MaxFeeds |-> IF s = 1 THEN [NoFeed EXCEPT !.state = "open"] ELSE NoFeed]
    /\ todoListeners = ComponentCallbacks
    /\ initialized = TRUE
    /\ initCalls = NoInits
    /\ firebaseReady = TRUE
    /\ authObserved = TRUE
    /\ claudeApiKey = storedKey

\* The components' identity listeners read the services and write only the
\* page (shown, adminFeeds, accessRequests), so the services behave the same
\* with and without them: the specifications of the services leave the
\* rendering out, the specifications of the page register the listeners of
\* AuthComponent, AdminComponent and ActionsComponent.
RenderingLeftOut == authStateListeners = <<>>

ComponentsListening == authStateListeners = AuthCallbacks

\* The browser's local storage as earlier sessions left it.
NoKeyStored == storedKey = NULL

KeyOfEarlierSessions == storedKey \in {NULL, "sk-key"}

\* The store as earlier sessions left it: empty, or holding the request of u1
\* with the permission record written with it (pending, or reviewed by the
\* admin), or the request alone (its permission write had failed).
StoreOfEarlierSessions(withOrphan) ==
    \/ reqDocs = {} /\ permDocs = {}
    \/ \E st \in Statuses, pid \in 1..MaxPermDocs :
         /\ reqDocs = {[id |-> 1, uid |-> "u1", status |-> st, reviewedBy |-> IF st = "pending" THEN NULL ELSE ADMIN_EMAIL]}
         /\ permDocs = {[id |-> pid, uid |-> "u1", status |-> st]}
    \/ /\ withOrphan
       /\ reqDocs = {[id |-> 1, uid |-> "u1", status |-> "pending", reviewedBy |-> NULL]}
       /\ permDocs = {}

\* The store after u1 was approved and u2 denied.
StoreWithReviewedUsers ==
    /\ reqDocs = {[id |-> 1, uid |-> "u1", status |-> "approved", reviewedBy |-> ADMIN_EMAIL],
                  [id |-> 2, uid |-> "u2", status |-> "denied", reviewedBy |-> ADMIN_EMAIL]}
    /\ permDocs = {[id |-> 1, uid |-> "u1", status |-> "approved"],
                   [id |-> 2, uid |-> "u2", status |-> "denied"]}

\* No to-do was ever stored.
NoTodosStored == todoDocs = {} /\ nextTodoId = 1

\* The to-dos earlier sessions left: one by u1, the next by the admin, and so on.
TodosOfEarlierSessions ==
    /\ todoDocs = {[id |-> i, text |-> <<"a">>, completed |-> FALSE, imageUrl |-> NULL,
                    uid |-> IF i % 2 = 1 THEN "u1" ELSE "admin"] : i \in 1..MaxTodos}
    /\ nextTodoId = MaxTodos + 1

InitTodo == Constructed /\ NoKeyStored /\ AppStarted /\ RenderingLeftOut /\ StoreWithReviewedUsers /\ NoTodosStored

InitDelete == Constructed /\ NoKeyStored /\ AppStarted /\ RenderingLeftOut /\ StoreWithReviewedUsers /\ TodosOfEarlierSessions

\* The to-dos earlier sessions left, one by u1, the next by the admin, and
\* so on, some of them completed.
StoredTodos ==
    /\ \E completed \in [1..MaxStored -> BOOLEAN] :
           todoDocs = {[id |-> i, text |-> <<"a">>, completed |-> completed[i], imageUrl |-> NULL,
                        uid |-> IF i % 2 = 1 THEN "u1" ELSE "admin"] : i \in 1..MaxStored}
    /\ nextTodoId = MaxStored + 1

InitClear == Constructed /\ NoKeyStored /\ AppStarted /\ RenderingLeftOut /\ StoreWithReviewedUsers /\ StoredTodos

InitAuth == Constructed /\ NoKeyStored /\ AppStarted /\ RenderingLeftOut /\ StoreOfEarlierSessions(FALSE) /\ NoTodosStored

InitReview == Constructed /\ NoKeyStored /\ AppStarted /\ RenderingLeftOut /\ StoreOfEarlierSessions(TRUE) /\ NoTodosStored

InitLegacy == Constructed /\ NoKeyStored /\ AppStarted /\ RenderingLeftOut /\ StoreOfEarlierSessions(TRUE) /\ NoTodosStored

\* -------------------------------------------- the components' auth listeners
\* The section AuthComponent.handleAuthStateChange shows for a status.
SectionFor(status) ==
    CASE status = "unauthenticated" -> "login"
      [] status \in {"admin", "approved"} -> "user"
      [] status = "pending" -> "pending"
      [] status = "denied" -> "denied"
      [] OTHER -> "accessRequest"

Registered(listeners, callback) == \E i \in 1..Len(listeners) : listeners[i] = callback

\* The page after the listeners ran, in registration order, for a caller of
\* that status: AuthComponent hides everything and shows the section and the
\* controls of the status, and its auth-state-changed event makes TodoApp
\* show or hide the admin panel, the summary button and the actions; then
\* ActionsComponent.updateVisibility sets the actions by isApproved().
Render(listeners, status, approved, page) ==
    LET byAuth == IF Registered(listeners, "auth")
                  THEN [section |-> SectionFor(status),
                        input |-> status \in {"admin", "approved"},
                        actions |-> status \in {"admin", "approved"},
                        summary |-> status \in {"admin", "approved"},
                        adminPanel |-> status = "admin"]
                  ELSE page
    IN IF Registered(listeners, "actions") THEN [byAuth EXCEPT !.actions = approved] ELSE byAuth

UnusedAdminFeeds == {s \in 1..MaxFeeds : adminFeeds[s].state = "unused"}

\* AdminComponent.loadAccessRequests: opens a subscription and stores its
\* handle over the one held.
loadAccessRequests ==
    /\ UnusedAdminFeeds # {}
    /\ LET new == CHOOSE s \in UnusedAdminFeeds : \A r \in UnusedAdminFeeds : s <= r
       IN /\ adminUnsubscribe' = new
          /\ adminFeeds' = [adminFeeds EXCEPT ![new].state = "open"]
    /\ UNCHANGED accessRequests

\* AdminComponent.cleanup: the handle held is called and dropped, the cached
\* list is emptied. An unsubscribed feed is over; its id is free again.
cleanup ==
    /\ adminFeeds' = IF adminUnsubscribe # 0 THEN [adminFeeds EXCEPT ![adminUnsubscribe] = NoFeed] ELSE adminFeeds
    /\ adminUnsubscribe' = 0
    /\ accessRequests' = <<>>

\* The end of handleAuthStateChange: every registered callback runs with the
\* state the handler leaves.
NotifyAuthStateListeners ==
    /\ shown' = Render(authStateListeners, getUserStatus', isApproved', shown)
    /\ IF Registered(authStateListeners, "admin")
       THEN IF isAdmin' THEN loadAccessRequests ELSE cleanup
       ELSE UNCHANGED <<adminUnsubscribe, adminFeeds, accessRequests>>
    /\ UNCHANGED <<authStateListeners, handleVars, localVars>>

\* handleAuthStateChange(user) up to its await: the identity provider reports
\* user (NULL for a sign-out).
HandleAuthStateChange(user) ==
    /\ authObserved
    /\ user # currentUser
    /\ currentUser' = user
    /\ IF user # NULL
       THEN /\ NumLookups < MaxLookups
            /\ lookups' = [lookups EXCEPT ![user] = @ + 1]
            /\ UNCHANGED userPermissions
            /\ ev' = [op |-> "signIn", user |-> user]
            /\ UNCHANGED restVars
       ELSE /\ userPermissions' = NoPerm
            /\ UNCHANGED lookups
            /\ ev' = [op |-> "signOut"]
            /\ NotifyAuthStateListeners
    /\ UNCHANGED <<submitCall, adminCalls, reqDocs, permDocs, todoVars, legacyVars, relayVars, appVars, claudeVars>>

\* checkUserPermissions after its await: the lookup issued for uid resolves with
\* the matching documents, and handleAuthStateChange runs to its end.
CheckUserPermissionsResolved(uid) ==
    /\ lookups[uid] > 0
    /\ lookups' = [lookups EXCEPT ![uid] = @ - 1]
    /\ userPermissions' = IF PermsOf(uid) # {} THEN FirstPerm(uid) ELSE NoPerm
    /\ ev' = [op |-> "lookup", ok |-> TRUE, uid |-> uid]
    /\ UNCHANGED <<currentUser, submitCall, adminCalls, reqDocs, permDocs, todoVars, legacyVars, relayVars, appVars, claudeVars>>
    /\ NotifyAuthStateListeners

\* The catch branch without its assignment: the stale record survives the failure.
CheckUserPermissionsFailedKeepsCache(uid) ==
    /\ lookups[uid] > 0
    /\ lookups' = [lookups EXCEPT ![uid] = @ - 1]
    /\ ev' = [op |-> "lookup", ok |-> FALSE, uid |-> uid, before |-> userPermissions.status]
    /\ UNCHANGED <<currentUser, userPermissions, submitCall, adminCalls, reqDocs, permDocs, todoVars, legacyVars, relayVars, appVars, claudeVars>>
    /\ NotifyAuthStateListeners

\* checkUserPermissions after its await, the lookup having failed (catch branch).
CheckUserPermissionsFailed(uid) ==
    /\ lookups[uid] > 0
    /\ lookups' = [lookups EXCEPT ![uid] = @ - 1]
    /\ userPermissions' = NoPerm
    /\ ev' = [op |-> "lookup", ok |-> FALSE, uid |-> uid, before |-> userPermissions.status]
    /\ UNCHANGED <<currentUser, submitCall, adminCalls, reqDocs, permDocs, todoVars, legacyVars, relayVars, appVars, claudeVars>>
    /\ NotifyAuthStateListeners

\* The guard without its reason clause: only a signed-out caller is refused.
SubmitRefusedUnlessSignedIn(reason) == currentUser = NULL

\* The throw that opens submitAccessRequest: nobody signed in, or a reason
\* that trims to nothing.
SubmitRefused(reason) == currentUser = NULL \/ Trim(reason) = <<>>

\* submitAccessRequest(reason) up to its first await.
SubmitAccessRequest(reason) ==
    /\ submitCall.pc = "idle"
    /\ Cardinality(reqDocs) < MaxReqDocs
    /\ Cardinality(permDocs) < MaxPermDocs
    /\ IF SubmitRefused(reason)
       THEN /\ ev' = [op |-> "submit", ok |-> FALSE, caller |-> currentUser, writes |-> 0,
                      in |-> [reason |-> reason, user |-> currentUser]]
            /\ UNCHANGED submitCall
       ELSE /\ submitCall' = [pc |-> "await1", caller |-> currentUser, reqUid |-> currentUser,
                              isNew |-> (~isAdmin /\ PermsOf(currentUser) = {})]
            /\ ev' = [op |-> "submitIssued", writes |-> 1, in |-> [reason |-> reason, user |-> currentUser]]
    /\ UNCHANGED <<currentUser, userPermissions, lookups, adminCalls, reqDocs, permDocs, todoVars, legacyVars, relayVars, appVars, claudeVars, restVars>>

\* The accessRequests write resolves; the handler goes on to issue the
\* userPermissions write, reading this.currentUser again for its payload
\* (a TypeError, caught and rethrown, when nobody is signed in by then).
SubmitRequestWritten ==
    /\ submitCall.pc = "await1"
    /\ \E id \in FreeReqIds :
         /\ id = CHOOSE i \in FreeReqIds : \A j \in FreeReqIds : i <= j
         /\ reqDocs' = reqDocs \cup {[id |-> id, uid |-> submitCall.reqUid, status |-> "pending", reviewedBy |-> NULL]}
         /\ IF currentUser = NULL
            THEN /\ submitCall' = NoSubmit
                 /\ ev' = [op |-> "submit", ok |-> FALSE, caller |-> submitCall.caller, writes |-> 1]
            ELSE /\ submitCall' = [submitCall EXCEPT !.pc = "await2"] @@ [reqId |-> id, permUid |-> currentUser]
                 /\ ev' = [op |-> "step"]
    /\ UNCHANGED <<currentUser, userPermissions, lookups, adminCalls, permDocs, todoVars, legacyVars, relayVars, appVars, claudeVars, restVars>>

\* The accessRequests write is rejected: catch, rethrow.
SubmitRequestWriteFailed ==
    /\ submitCall.pc = "await1"
    /\ submitCall' = NoSubmit
    /\ ev' = [op |-> "submit", ok |-> FALSE, caller |-> submitCall.caller, writes |-> 1]
    /\ UNCHANGED <<currentUser, userPermissions, lookups, adminCalls, reqDocs, permDocs, todoVars, legacyVars, relayVars, appVars, claudeVars, restVars>>

\* The userPermissions write resolves (the store generates the document id);
\* the handler caches { status: 'pending' } and returns.
SubmitPermissionWritten ==
    /\ submitCall.pc = "await2"
    /\ \E id \in FreePermIds :
         /\ permDocs' = permDocs \cup {[id |-> id, uid |-> submitCall.permUid, status |-> "pending"]}
         /\ ev' = [op |-> "submit", ok |-> TRUE, caller |-> submitCall.caller, writes |-> 2,
                   isNew |-> submitCall.isNew, reqId |-> submitCall.reqId, permId |-> id]
    /\ userPermissions' = LocalPending
    /\ submitCall' = NoSubmit
    /\ UNCHANGED <<currentUser, lookups, adminCalls, reqDocs, todoVars, legacyVars, relayVars, appVars, claudeVars, restVars>>

\* The userPermissions write is rejected: catch, rethrow; the request stays.
SubmitPermissionWriteFailed ==
    /\ submitCall.pc = "await2"
    /\ submitCall' = NoSubmit
    /\ ev' = [op |-> "submit", ok |-> FALSE, caller |-> submitCall.caller, writes |-> 2]
    /\ UNCHANGED <<currentUser, userPermissions, lookups, adminCalls, reqDocs, permDocs, todoVars, legacyVars, relayVars, appVars, claudeVars, restVars>>

\* approveRequest / denyRequest (requestId, uid) up to the first await, called
\* on a request of the store with that request's uid (as the admin panel and the
\* globals window.approveRequest / window.denyRequest do).
ReviewRequest(kind, r) ==
    /\ Cardinality(adminCalls) < MaxAdminCalls
    /\ IF ~isAdmin
       THEN /\ ev' = [op |-> kind, ok |-> FALSE, writes |-> 0, status |-> getUserStatus]
            /\ UNCHANGED adminCalls
       ELSE /\ adminCalls' = adminCalls \cup {[kind |-> kind, requestId |-> r.id, uid |-> r.uid,
                                               pc |-> "await1", by |-> Email(currentUser), permId |-> 0]}
            /\ ev' = [op |-> "reviewWrite", status |-> getUserStatus]
    /\ UNCHANGED <<currentUser, userPermissions, lookups, submitCall, reqDocs, permDocs, todoVars, legacyVars, relayVars, appVars, claudeVars, restVars>>

\* The accessRequests update resolves; the handler issues the userPermissions query.
ReviewRequestUpdated(c) ==
    /\ c.pc = "await1"
    /\ reqDocs' = UpdateReq(c.requestId, ReviewStatus(c.kind), c.by)
    /\ adminCalls' = (adminCalls \ {c}) \cup {[c EXCEPT !.pc = "await2"]}
    /\ ev' = [op |-> "step"]
    /\ UNCHANGED <<currentUser, userPermissions, lookups, submitCall, permDocs, todoVars, legacyVars, relayVars, appVars, claudeVars, restVars>>

\* The query resolves: with a match, the handler issues the update of
\* permissions[0]; with none it returns without touching userPermissions.
ReviewQueryResolved(c) ==
    /\ c.pc = "await2"
    /\ IF PermsOf(c.uid) # {}
       THEN /\ adminCalls' = (adminCalls \ {c}) \cup {[c EXCEPT !.pc = "await3", !.permId = FirstPerm(c.uid).id]}
            /\ ev' = [op |-> "reviewWrite", status |-> getUserStatus]
       ELSE /\ adminCalls' = adminCalls \ {c}
            /\ ev' = [op |-> c.kind, ok |-> TRUE, writes |-> 1, requestId |-> c.requestId, uid |-> c.uid]
    /\ UNCHANGED <<currentUser, userPermissions, lookups, submitCall, reqDocs, permDocs, todoVars, legacyVars, relayVars, appVars, claudeVars, restVars>>

\* The userPermissions update resolves; the handler returns.
ReviewPermissionUpdated(c) ==
    /\ c.pc = "await3"
    /\ permDocs' = UpdatePerm(c.permId, ReviewStatus(c.kind))
    /\ adminCalls' = adminCalls \ {c}
    /\ ev' = [op |-> c.kind, ok |-> TRUE, writes |-> 2, requestId |-> c.requestId, uid |-> c.uid]
    /\ UNCHANGED <<currentUser, userPermissions, lookups, submitCall, reqDocs, todoVars, legacyVars, relayVars, appVars, claudeVars, restVars>>

\* Any of the three awaited backend calls is rejected: catch, rethrow.
ReviewBackendFailed(c) ==
    /\ adminCalls' = adminCalls \ {c}
    /\ ev' = [op |-> c.kind, ok |-> FALSE, writes |-> (IF c.pc = "await3" THEN 2 ELSE 1)]
    /\ UNCHANGED <<currentUser, userPermissions, lookups, submitCall, reqDocs, permDocs, todoVars, legacyVars, relayVars, appVars, claudeVars, restVars>>

\* ------------------------------------------------------------ TodoService
\* The feed's snapshot: the todos ordered by createdAt, descending.
RECURSIVE Snapshot(_)
Snapshot(docs) ==
    IF docs = {} THEN <<>>
    ELSE LET newest == CHOOSE d \in docs : \A e \in docs : d.id >= e.id
         IN <<newest>> \o Snapshot(docs \ {newest})

Cached == {todos[i] : i \in 1..Len(todos)}

canModifyTodo == isApproved

canDeleteTodo(createdBy) == currentUser # NULL /\ (isAdmin \/ createdBy = currentUser)

\* The download URL that uploadFile resolves with.
DownloadUrl(file) == CASE file = "photo.png" -> "todo-images/photo.png"

\* What a TodoService call reports of its synchronous part: who was signed in
\* when it was invoked, the backend calls it issued, whether it threw.
Invoked(op, uploads, writes, thrown) ==
    [op |-> op, user |-> currentUser, uploads |-> uploads, writes |-> writes, thrown |-> thrown]

Returned(op, ok) == [op |-> "returned", call |-> op, ok |-> ok]

\* The arguments of an addTodo call and its caller when it was invoked.
AddArgs(text, file) == [text |-> text, file |-> file, user |-> currentUser, status |-> getUserStatus]

\* The arguments of a toggleTodo call, its caller, and whether the arguments
\* are those of the listener TodoListComponent attached to a rendered item.
ToggleArgs(todoId, currentStatus) ==
    [todoId |-> todoId, currentStatus |-> currentStatus, user |-> currentUser, status |-> getUserStatus,
     rendered |-> \E t \in Cached : t.id = todoId /\ t.completed = currentStatus]

\* notifyTodoListeners: the callbacks invoked, in order.
notifyFirstListener(listeners) == SubSeq(listeners, 1, 1)

notifyTodoListeners(listeners) == [i \in 1..Len(listeners) |-> listeners[i]]

\* The snapshot callback of subscription s with documents: a push replaces the
\* cached list and notifies the listeners. The backend pushes the first
\* snapshot of a subscription and then one per change of the collection.
FeedPushOf(s) ==
    /\ feeds[s].state = "open"
    /\ ~feeds[s].delivered \/ feeds[s].last # Snapshot(todoDocs)
    /\ todos' = Snapshot(todoDocs)
    /\ feeds' = [feeds EXCEPT ![s].last = Snapshot(todoDocs), ![s].delivered = TRUE]
    /\ ev' = [op |-> "feedPush", user |-> currentUser, feed |-> s,
              notified |-> notifyTodoListeners(todoListeners)]
    /\ UNCHANGED <<authVars, permVars, legacyVars, relayVars, claudeVars, toggled, todoDocs, nextTodoId, todoCall, deletesInFlight, restVars>>
    /\ UNCHANGED <<unsubscribe, todoListeners, initialized, initCalls, firebaseReady, authObserved>>

FeedPush == \E s \in 1..MaxFeeds : FeedPushOf(s)

\* The snapshot callback of subscription s with an error: logged, nothing
\* else. The subscription is over.
FeedError(s) ==
    /\ feeds[s].state = "open"
    /\ feeds' = [feeds EXCEPT ![s].state = "failed"]
    /\ ev' = [op |-> "feedError", user |-> currentUser, feed |-> s, notified |-> <<>>]
    /\ UNCHANGED <<authVars, permVars, todoVars, legacyVars, relayVars, claudeVars, restVars>>
    /\ UNCHANGED <<unsubscribe, todoListeners, initialized, initCalls, firebaseReady, authObserved>>

\* The snapshot callback of AdminComponent's subscription s with documents:
\* a push replaces the cached list of requests (ordered by requestedAt,
\* descending).
AdminFeedPush(s) ==
    /\ adminFeeds[s].state = "open"
    /\ ~adminFeeds[s].delivered \/ adminFeeds[s].last # Snapshot(reqDocs)
    /\ accessRequests' = Snapshot(reqDocs)
    /\ adminFeeds' = [adminFeeds EXCEPT ![s].last = Snapshot(reqDocs), ![s].delivered = TRUE]
    /\ ev' = [op |-> "adminFeedPush", feed |-> s]
    /\ UNCHANGED <<authVars, permVars, todoVars, legacyVars, relayVars, appVars, claudeVars>>
    /\ UNCHANGED <<authStateListeners, shown, adminUnsubscribe, handleVars, localVars>>

\* The subscriptions that deliver.
OpenFeeds == {s \in 1..MaxFeeds : feeds[s].state = "open"}

UnusedFeeds == {s \in 1..MaxFeeds : feeds[s].state = "unused"}

\* The subscription onDocumentsSnapshot opens next.
NewFeed == CHOOSE s \in UnusedFeeds : \A r \in UnusedFeeds : s <= r

InitsInFlight == initCalls["firebase"] + initCalls["auth"] + initCalls["todo"]

\* Calls that reach setupTodoListener are started only while a subscription
\* is left for each of them.
FeedLeft == InitsInFlight < Cardinality(UnusedFeeds)

\* setupTodoListener: opens a subscription and stores its handle over the
\* one held.
setupTodoListener ==
    /\ unsubscribe' = NewFeed
    /\ feeds' = [feeds EXCEPT ![NewFeed].state = "open"]

\* TodoApp.init up to its first await: FirebaseService.initialize has no
\* await of its own and sets its flag at once.
AppInit ==
    /\ initialized \/ FeedLeft
    /\ IF initialized
       THEN /\ ev' = [op |-> "init", started |-> FALSE]
            /\ UNCHANGED <<initCalls, firebaseReady>>
       ELSE /\ firebaseReady' = TRUE
            /\ initCalls' = [initCalls EXCEPT !["firebase"] = @ + 1]
            /\ ev' = [op |-> "init", started |-> TRUE]
    /\ UNCHANGED <<authVars, permVars, todoVars, legacyVars, relayVars, claudeVars, restVars>>
    /\ UNCHANGED <<unsubscribe, feeds, todoListeners, initialized, authObserved>>

\* initializeServices after firebaseService.initialize: authService.initialize
\* registers handleAuthStateChange with the identity provider and is awaited.
AppInitFirebaseDone ==
    /\ initCalls["firebase"] > 0
    /\ initCalls' = [initCalls EXCEPT !["firebase"] = @ - 1, !["auth"] = @ + 1]
    /\ authObserved' = TRUE
    /\ ev' = [op |-> "initStep", at |-> "auth"]
    /\ UNCHANGED <<authVars, permVars, todoVars, legacyVars, relayVars, claudeVars, restVars>>
    /\ UNCHANGED <<unsubscribe, feeds, todoListeners, initialized, firebaseReady>>

\* initializeServices after authService.initialize: TodoService.initialize
\* runs setupTodoListener and is awaited.
AppInitAuthDone ==
    /\ initCalls["auth"] > 0
    /\ initCalls' = [initCalls EXCEPT !["auth"] = @ - 1, !["todo"] = @ + 1]
    /\ setupTodoListener
    /\ ev' = [op |-> "initStep", at |-> "todo"]
    /\ UNCHANGED <<authVars, permVars, todoVars, legacyVars, relayVars, claudeVars, restVars>>
    /\ UNCHANGED <<todoListeners, initialized, firebaseReady, authObserved>>

\* init after initializeServices' last await: claudeService.initialize loads
\* the stored key, the components register their callbacks, the flag is set.
AppInitTodoDone ==
    /\ initCalls["todo"] > 0
    /\ initCalls' = [initCalls EXCEPT !["todo"] = @ - 1]
    /\ claudeApiKey' = storedKey
    /\ todoListeners' = todoListeners \o ComponentCallbacks
    /\ authStateListeners' = authStateListeners \o AuthCallbacks
    /\ initialized' = TRUE
    /\ ev' = [op |-> "initStep", at |-> "done"]
    /\ UNCHANGED <<authVars, permVars, todoVars, legacyVars, relayVars, storedKey, claudeCall>>
    /\ UNCHANGED <<shown, adminUnsubscribe, adminFeeds, accessRequests, handleVars, localVars>>
    /\ UNCHANGED <<unsubscribe, feeds, firebaseReady, authObserved>>

\* TodoApp.refresh: TodoService.initialize again. It throws before
\* FirebaseService is initialized.
Refresh ==
    /\ FeedLeft
    /\ IF firebaseReady
       THEN /\ setupTodoListener
            /\ ev' = [op |-> "refresh", ok |-> TRUE]
       ELSE /\ ev' = [op |-> "refresh", ok |-> FALSE]
            /\ UNCHANGED <<unsubscribe, feeds>>
    /\ UNCHANGED <<authVars, permVars, todoVars, legacyVars, relayVars, claudeVars, restVars>>
    /\ UNCHANGED <<todoListeners, initialized, initCalls, firebaseReady, authObserved>>

\* TodoApp.destroy with AdminComponent.destroy and TodoService.destroy: the
\* handles held are called and dropped, the todo listeners and the caches are
\* emptied, the flag is reset. The auth listeners stay registered.
Destroy ==
    /\ IF unsubscribe # 0
       THEN feeds' = [feeds EXCEPT ![unsubscribe].released = @ + 1,
                                   ![unsubscribe].state = IF @ = "open" THEN "closed" ELSE @]
       ELSE UNCHANGED feeds
    /\ unsubscribe' = 0
    /\ todoListeners' = <<>>
    /\ todos' = <<>>
    /\ initialized' = FALSE
    /\ ev' = [op |-> "destroy", handle |-> unsubscribe]
    /\ cleanup
    /\ UNCHANGED <<authVars, permVars, legacyVars, relayVars, claudeVars, toggled, todoDocs, nextTodoId, todoCall, deletesInFlight>>
    /\ UNCHANGED <<authStateListeners, shown, handleVars, localVars>>
    /\ UNCHANGED <<initCalls, firebaseReady, authObserved>>

\* addTodo(text, file) up to its first await.
AddTodo(text, file) ==
    /\ todoCall.pc = "idle"
    /\ nextTodoId <= MaxTodos
    /\ IF currentUser = NULL \/ ~isApproved
       THEN /\ ev' = Invoked("addTodo", 0, 0, TRUE) @@ [in |-> AddArgs(text, file)]
            /\ UNCHANGED todoCall
       ELSE IF Trim(text) = <<>>
       THEN /\ ev' = Invoked("addTodo", 0, 0, TRUE) @@ [in |-> AddArgs(text, file)]
            /\ UNCHANGED todoCall
       ELSE IF file # NULL
       THEN /\ todoCall' = [pc |-> "uploadBytes", op |-> "addTodo", user |-> currentUser, text |-> text, file |-> file,
                            in |-> AddArgs(text, file)]
            /\ ev' = Invoked("addTodo", 1, 0, FALSE) @@ [in |-> AddArgs(text, file)]
       ELSE /\ todoCall' = [pc |-> "write", op |-> "addTodo",
                            doc |-> [text |-> Trim(text), completed |-> FALSE, imageUrl |-> NULL, uid |-> currentUser],
                            in |-> AddArgs(text, file)]
            /\ ev' = Invoked("addTodo", 0, 1, FALSE) @@ [in |-> AddArgs(text, file)]
    /\ UNCHANGED <<authVars, permVars, legacyVars, relayVars, appVars, claudeVars, toggled, todoDocs, nextTodoId, todos, deletesInFlight, restVars>>

\* uploadFile: uploadBytes resolves and getDownloadURL is issued.
AddTodoUploaded ==
    /\ todoCall.pc = "uploadBytes"
    /\ todoCall' = [todoCall EXCEPT !.pc = "getDownloadURL"]
    /\ ev' = [op |-> "step"]
    /\ UNCHANGED <<authVars, permVars, legacyVars, relayVars, appVars, claudeVars, toggled, todoDocs, nextTodoId, todos, deletesInFlight, restVars>>

\* The write built with the user signed in when the upload ends, not the one
\* captured when addTodo was invoked.
AddTodoUrlResolvedRereadsUser ==
    /\ todoCall.pc = "getDownloadURL"
    /\ todoCall' = [pc |-> "write", op |-> "addTodo",
                    doc |-> [text |-> Trim(todoCall.text), completed |-> FALSE,
                             imageUrl |-> DownloadUrl(todoCall.file), uid |-> currentUser],
                    in |-> todoCall.in]
    /\ ev' = [op |-> "todoWrite", user |-> currentUser, by |-> todoCall.user]
    /\ UNCHANGED <<authVars, permVars, legacyVars, relayVars, appVars, claudeVars, toggled, todoDocs, nextTodoId, todos, deletesInFlight, restVars>>

\* getDownloadURL resolves; addTodo builds the item and issues its write.
AddTodoUrlResolved ==
    /\ todoCall.pc = "getDownloadURL"
    /\ todoCall' = [pc |-> "write", op |-> "addTodo",
                    doc |-> [text |-> Trim(todoCall.text), completed |-> FALSE,
                             imageUrl |-> DownloadUrl(todoCall.file), uid |-> todoCall.user],
                    in |-> todoCall.in]
    /\ ev' = [op |-> "todoWrite", user |-> currentUser, by |-> todoCall.user]
    /\ UNCHANGED <<authVars, permVars, legacyVars, relayVars, appVars, claudeVars, toggled, todoDocs, nextTodoId, todos, deletesInFlight, restVars>>

\* A failed upload that goes on to write the item without an image.
AddTodoUploadFailedStillWrites ==
    /\ todoCall.pc \in {"uploadBytes", "getDownloadURL"}
    /\ todoCall' = [pc |-> "write", op |-> "addTodo",
                    doc |-> [text |-> Trim(todoCall.text), completed |-> FALSE, imageUrl |-> NULL, uid |-> todoCall.user],
                    in |-> todoCall.in]
    /\ ev' = [op |-> "todoWrite", user |-> currentUser, by |-> todoCall.user]
    /\ UNCHANGED <<authVars, permVars, legacyVars, relayVars, appVars, claudeVars, toggled, todoDocs, nextTodoId, todos, deletesInFlight, restVars>>

\* uploadBytes or getDownloadURL is rejected: catch, rethrow, nothing written.
AddTodoUploadFailed ==
    /\ todoCall.pc \in {"uploadBytes", "getDownloadURL"}
    /\ todoCall' = NoCall
    /\ ev' = Returned("addTodo", FALSE) @@ [at |-> todoCall.pc]
    /\ UNCHANGED <<authVars, permVars, legacyVars, relayVars, appVars, claudeVars, toggled, todoDocs, nextTodoId, todos, deletesInFlight, restVars>>

\* toggleTodo(todoId, currentStatus) up to its await.
ToggleTodo(todoId, currentStatus) ==
    /\ todoCall.pc = "idle"
    /\ IF ~isApproved
       THEN /\ ev' = Invoked("toggleTodo", 0, 0, TRUE) @@ [in |-> ToggleArgs(todoId, currentStatus)]
            /\ UNCHANGED todoCall
       ELSE /\ todoCall' = [pc |-> "write", op |-> "toggleTodo", id |-> todoId, completed |-> ~currentStatus,
                            in |-> ToggleArgs(todoId, currentStatus)]
            /\ ev' = Invoked("toggleTodo", 0, 1, FALSE) @@ [in |-> ToggleArgs(todoId, currentStatus)]
    /\ UNCHANGED <<authVars, permVars, legacyVars, relayVars, appVars, claudeVars, toggled, todoDocs, nextTodoId, todos, deletesInFlight, restVars>>

\* The history after the toggle of call has taken effect: the second of two
\* successive toggles of one item by one approved user, each called with the
\* flag of the rendered item, or else the first of a new succession (with the
\* flag the store held before it); a toggle called otherwise ends the succession.
Toggled(call) ==
    IF ~call.in.rendered \/ call.in.status # "approved" THEN NoToggles
    ELSE IF toggled.n = 1 /\ toggled.id = call.id /\ toggled.user = call.in.user
    THEN [toggled EXCEPT !.n = 2]
    ELSE [n |-> 1, id |-> call.id, user |-> call.in.user,
          orig |-> (CHOOSE d \in todoDocs : d.id = call.id).completed]

\* The resolved write patched into the cached list by the service itself.
TodoWriteResolvedIntoCache ==
    /\ todoCall.pc = "write"
    /\ IF todoCall.op = "addTodo"
       THEN /\ todoDocs' = todoDocs \cup {todoCall.doc @@ [id |-> nextTodoId]}
            /\ nextTodoId' = nextTodoId + 1
       ELSE /\ \E d \in todoDocs : d.id = todoCall.id
            /\ todoDocs' = {IF d.id = todoCall.id THEN [d EXCEPT !.completed = todoCall.completed] ELSE d : d \in todoDocs}
            /\ UNCHANGED nextTodoId
    /\ todos' = Snapshot(todoDocs')
    /\ toggled' = IF todoCall.op = "toggleTodo" THEN Toggled(todoCall) ELSE toggled
    /\ todoCall' = NoCall
    /\ ev' = Returned(todoCall.op, TRUE) @@ [in |-> todoCall.in, id |-> IF todoCall.op = "addTodo" THEN nextTodoId ELSE todoCall.id]
    /\ UNCHANGED <<authVars, permVars, legacyVars, relayVars, appVars, claudeVars, deletesInFlight, restVars>>

\* The addDocument of addTodo or the updateDocument of toggleTodo resolves
\* (an update resolves only for a document that exists); the call returns.
TodoWriteResolved ==
    /\ todoCall.pc = "write"
    /\ IF todoCall.op = "addTodo"
       THEN /\ todoDocs' = todoDocs \cup {todoCall.doc @@ [id |-> nextTodoId]}
            /\ nextTodoId' = nextTodoId + 1
       ELSE /\ \E d \in todoDocs : d.id = todoCall.id
            /\ todoDocs' = {IF d.id = todoCall.id THEN [d EXCEPT !.completed = todoCall.completed] ELSE d : d \in todoDocs}
            /\ UNCHANGED nextTodoId
    /\ toggled' = IF todoCall.op = "toggleTodo" THEN Toggled(todoCall) ELSE toggled
    /\ todoCall' = NoCall
    /\ ev' = Returned(todoCall.op, TRUE) @@ [in |-> todoCall.in, id |-> IF todoCall.op = "addTodo" THEN nextTodoId ELSE todoCall.id]
    /\ UNCHANGED <<authVars, permVars, legacyVars, relayVars, appVars, claudeVars, todos, deletesInFlight, restVars>>

\* The write is rejected: catch, rethrow.
TodoWriteFailed ==
    /\ todoCall.pc = "write"
    /\ todoCall' = NoCall
    /\ ev' = Returned(todoCall.op, FALSE)
    /\ UNCHANGED <<authVars, permVars, legacyVars, relayVars, appVars, claudeVars, toggled, todoDocs, nextTodoId, todos, deletesInFlight, restVars>>

\* The guard without its admin clause: only the creator may delete.
DeleteRefusedUnlessOwner(createdBy) == currentUser = NULL \/ createdBy # currentUser

\* The two throws that open deleteTodo: nobody signed in, or neither the
\* administrator nor the creator.
DeleteRefused(createdBy) == currentUser = NULL \/ (~isAdmin /\ createdBy # currentUser)

\* deleteTodo(todoId, createdBy) up to its await.
DeleteTodo(todoId, createdBy) ==
    /\ todoCall.pc = "idle"
    /\ IF DeleteRefused(createdBy)
       THEN /\ ev' = Invoked("deleteTodo", 0, 0, TRUE) @@ [createdBy |-> createdBy]
            /\ UNCHANGED <<todoCall, deletesInFlight>>
       ELSE /\ todoCall' = [pc |-> "deletes", op |-> "deleteTodo", pending |-> {todoId}, ids |-> {todoId}]
            /\ deletesInFlight' = deletesInFlight \cup {todoId}
            /\ ev' = Invoked("deleteTodo", 0, 1, FALSE) @@ [createdBy |-> createdBy]
    /\ UNCHANGED <<authVars, permVars, legacyVars, relayVars, appVars, claudeVars, toggled, todoDocs, nextTodoId, todos, restVars>>

\* The caller of a clear call and the list it had cached when it was invoked.
ClearArgs == [user |-> currentUser, status |-> getUserStatus, cached |-> Cached]

\* The deletes of a batch are issued together; Promise.all of none resolves at once.
IssueDeletes(op, ids, in) ==
    /\ deletesInFlight' = deletesInFlight \cup ids
    /\ todoCall' = IF ids = {} THEN NoCall ELSE [pc |-> "deletes", op |-> op, pending |-> ids, ids |-> ids]
    /\ ev' = Invoked(op, 0, Cardinality(ids), FALSE) @@ [ids |-> ids, in |-> in]

\* The filter without its creator clause: every completed item.
completedTodosOfAnyone == {t \in Cached : t.completed}

\* The items clearCompletedTodos selects.
completedTodos ==
    IF isAdmin THEN {t \in Cached : t.completed}
    ELSE {t \in Cached : t.completed /\ t.uid = currentUser}

\* The items clearAllTodos selects.
userTodos == IF isAdmin THEN Cached ELSE {t \in Cached : t.uid = currentUser}

\* clearCompletedTodos() up to its await.
ClearCompletedTodos ==
    /\ todoCall.pc = "idle"
    /\ IF currentUser = NULL \/ ~isApproved
       THEN /\ ev' = Invoked("clearCompletedTodos", 0, 0, TRUE) @@ [ids |-> {}, in |-> ClearArgs]
            /\ UNCHANGED <<todoCall, deletesInFlight>>
       ELSE IssueDeletes("clearCompletedTodos", {t.id : t \in completedTodos}, ClearArgs)
    /\ UNCHANGED <<authVars, permVars, legacyVars, relayVars, appVars, claudeVars, toggled, todoDocs, nextTodoId, todos, restVars>>

\* clearAllTodos() up to its await; confirmed is the answer to confirm().
ClearAllTodos(confirmed) ==
    /\ todoCall.pc = "idle"
    /\ IF currentUser = NULL \/ ~isApproved
       THEN /\ ev' = Invoked("clearAllTodos", 0, 0, TRUE) @@ [ids |-> {}, in |-> ClearArgs @@ [asked |-> FALSE, confirmed |-> confirmed]]
            /\ UNCHANGED <<todoCall, deletesInFlight>>
       ELSE IF userTodos = {} \/ ~confirmed
            THEN /\ ev' = Invoked("clearAllTodos", 0, 0, FALSE)
                          @@ [ids |-> {}, in |-> ClearArgs @@ [asked |-> userTodos # {}, confirmed |-> confirmed]]
                 /\ UNCHANGED <<todoCall, deletesInFlight>>
            ELSE IssueDeletes("clearAllTodos", {t.id : t \in userTodos},
                              ClearArgs @@ [asked |-> TRUE, confirmed |-> TRUE])
    /\ UNCHANGED <<authVars, permVars, legacyVars, relayVars, appVars, claudeVars, toggled, todoDocs, nextTodoId, todos, restVars>>

\* One deleteDocument resolves; the call waiting on it returns once it was the last.
DeleteResolved(id) ==
    /\ id \in deletesInFlight
    /\ deletesInFlight' = deletesInFlight \ {id}
    /\ todoDocs' = {d \in todoDocs : d.id # id}
    /\ IF todoCall.pc = "deletes" /\ id \in todoCall.pending
       THEN IF todoCall.pending = {id}
            THEN /\ todoCall' = NoCall
                 /\ ev' = Returned(todoCall.op, TRUE) @@ [ids |-> todoCall.ids, unfinished |-> {}]
            ELSE /\ todoCall' = [todoCall EXCEPT !.pending = @ \ {id}]
                 /\ ev' = [op |-> "step"]
       ELSE /\ UNCHANGED todoCall
            /\ ev' = [op |-> "step"]
    /\ UNCHANGED <<authVars, permVars, legacyVars, relayVars, appVars, claudeVars, toggled, nextTodoId, todos, restVars>>

\* One deleteDocument is rejected: the call waiting on it throws at once
\* (Promise.all rejects on the first rejection); its other deletes go on.
DeleteFailed(id) ==
    /\ id \in deletesInFlight
    /\ deletesInFlight' = deletesInFlight \ {id}
    /\ IF todoCall.pc = "deletes" /\ id \in todoCall.pending
       THEN /\ todoCall' = NoCall
            /\ ev' = Returned(todoCall.op, FALSE) @@ [ids |-> todoCall.ids, unfinished |-> todoCall.pending \ {id}]
       ELSE /\ UNCHANGED todoCall
            /\ ev' = [op |-> "step"]
    /\ UNCHANGED <<authVars, permVars, legacyVars, relayVars, appVars, claudeVars, toggled, todoDocs, nextTodoId, todos, restVars>>

\* ------------------------------------------------- TodoService.getStatistics
\* JavaScript numbers are IEEE 754 doubles. A non-negative double is held as
\* [mant, exp], its value mant * 2^exp, mant a natural written as a sequence of
\* bits, least significant first, of at most MantissaBits bits.
MantissaBits == 53

\* a + b + carry in binary: the carry into a position comes from the nearest
\* position below it where both bits are set (or from the carry given), if
\* every position between holds a set bit.
AddBits(a, b, carry) ==
    LET n == IF Len(a) > Len(b) THEN Len(a) ELSE Len(b)
        x(i) == IF i = 0 THEN carry ELSE IF i <= Len(a) THEN a[i] ELSE 0
        y(i) == IF i = 0 THEN carry ELSE IF i <= Len(b) THEN b[i] ELSE 0
        carryInto(i) == IF \E j \in 0..(i - 1) : x(j) + y(j) = 2 /\ \A k \in (j + 1)..(i - 1) : x(k) + y(k) >= 1
                        THEN 1 ELSE 0
    IN [i \in 1..(n + carryInto(n + 1)) |-> (x(i) + y(i) + carryInto(i)) % 2]

ShiftLeft(bits, n) == [i \in 1..n |-> 0] \o bits

RECURSIVE BitsToNat(_)
BitsToNat(bits) == IF bits = <<>> THEN 0 ELSE Head(bits) + 2 * BitsToNat(Tail(bits))

\* Round to nearest, ties to even: low holds the bits dropped below kept.
RoundToEven(kept, low) ==
    LET guard == low # <<>> /\ low[Len(low)] = 1
        sticky == \E i \in 1..(Len(low) - 1) : low[i] = 1
    IN IF guard /\ (sticky \/ kept[1] = 1) THEN AddBits(kept, <<1>>, 0) ELSE kept

\* The number of zero digits that open the binary expansion of r / d, 0 < r < d.
RECURSIVE LeadingZeros(_, _)
LeadingZeros(r, d) == IF 2 * r >= d THEN 0 ELSE 1 + LeadingZeros(2 * r, d)

\* (r * 2^n) % d, the remainder long division is left with after n digits.
RECURSIVE RemainderAfter(_, _, _)
RemainderAfter(r, d, n) ==
    IF n <= 10 THEN (r * 2^n) % d ELSE RemainderAfter((r * 2^10) % d, d, n - 10)

\* n more binary digits of r / d by long division (r < d), appended below
\* acc, and the remainder left: a digit is set when twice the remainder
\* before it reaches d.
DivideDigits(r, d, n, acc) ==
    [bits |-> [i \in 1..n |-> (2 * RemainderAfter(r, d, n - i)) \div d] \o acc,
     rem |-> RemainderAfter(r, d, n)]

RECURSIVE TimesPowerOfTwo(_, _)
TimesPowerOfTwo(r, n) == IF n = 0 THEN r ELSE TimesPowerOfTwo(2 * r, n - 1)

\* completed / total as a double, 0 < completed <= total: MantissaBits
\* significant digits of the quotient, rounded on the digit after them and on
\* whether the division leaves a remainder after that digit.
DoubleDivide(completed, total) ==
    IF completed = total THEN [mant |-> <<1>>, exp |-> 0]
    ELSE LET z == LeadingZeros(completed, total)
             q == DivideDigits(TimesPowerOfTwo(completed, z), total, MantissaBits, <<>>)
             next == DivideDigits(q.rem, total, 1, <<>>)
         IN [mant |-> RoundToEven(q.bits, <<IF next.rem # 0 THEN 1 ELSE 0, next.bits[1]>>),
             exp |-> 0 - (z + MantissaBits)]

\* x * 100 as a double: the exact product (100 = 64 + 32 + 4) rounded to
\* MantissaBits significant bits.
DoubleTimes100(x) ==
    LET product == AddBits(AddBits(ShiftLeft(x.mant, 6), ShiftLeft(x.mant, 5), 0), ShiftLeft(x.mant, 2), 0)
        drop == IF Len(product) > MantissaBits THEN Len(product) - MantissaBits ELSE 0
    IN [mant |-> RoundToEven(SubSeq(product, drop + 1, Len(product)), SubSeq(product, 1, drop)),
        exp |-> x.exp + drop]

\* Math.round: the integer nearest to x, a half rounding up (x.exp <= 0).
MathRound(x) ==
    LET shift == 0 - x.exp
        half == IF shift >= 1 /\ shift <= Len(x.mant) THEN x.mant[shift] ELSE 0
    IN BitsToNat(SubSeq(x.mant, shift + 1, Len(x.mant))) + half

getStatistics ==
    LET total == Len(todos)
        completed == Cardinality({i \in 1..Len(todos) : todos[i].completed})
        pending == total - completed
    IN [total |-> total, completed |-> completed, pending |-> pending,
        completionRate |-> IF total > 0
                           THEN (IF completed = 0 THEN 0 ELSE MathRound(DoubleTimes100(DoubleDivide(completed, total))))
                           ELSE 0]

\* A caller reads the statistics.
GetStatistics ==
    /\ ev' = [op |-> "getStatistics", stats |-> getStatistics]
    /\ UNCHANGED <<authVars, permVars, todoVars, legacyVars, relayVars, appVars, claudeVars, restVars>>

\* A stored list of total items of which the completed ones come first.
StoredList ==
    \E total \in 0..MaxListLen, completed \in 0..MaxListLen :
        /\ completed <= total
        /\ todoDocs = {[id |-> i, text |-> <<"a">>, completed |-> (i <= completed), imageUrl |-> NULL, uid |-> "u1"] : i \in 1..total}
        /\ nextTodoId = total + 1

InitStats == Constructed /\ NoKeyStored /\ AppStarted /\ RenderingLeftOut /\ StoreWithReviewedUsers /\ StoredList

\* ------------------------------------------ the relay (POST /api/claude)
\* What the body of a request may hold under apiKey: nothing, the empty
\* string, a key.
ApiKeys == {NULL, "", "sk-key"}

\* Statuses the upstream API answers with; response.ok is 200..299.
UpstreamStatuses == {200, 201, 401, 502}

ResponseOk(status) == status \in 200..299

\* Bodies of upstream answers: a JSON document, the same document spaced
\* out, an HTML page, nothing.
UpstreamBodies == {"{\"type\":\"message\"}", "{ \"type\" : \"message\" }", "<html>Bad Gateway</html>", ""}

\* response.json() followed by res.json(): the body parsed and serialised
\* again, or a SyntaxError for a body that is not JSON.
ResponseJson(text) ==
    CASE text = "{\"type\":\"message\"}" -> "{\"type\":\"message\"}"
      [] text = "{ \"type\" : \"message\" }" -> "{\"type\":\"message\"}"
      [] OTHER -> "SyntaxError"

\* What the relay answers with: res.status(status).json(body).
Sent(status, body) == [status |-> status, body |-> body]

\* No answer of the upstream API yet.
NoAnswer == [fetch |-> "pending"]

\* The handler up to its first await: the key is read from the body, and the
\* call to the upstream API is issued when it is truthy.
PostClaude(r, apiKey) ==
    /\ requests[r].pc = "none"
    /\ requests' = [requests EXCEPT ![r] =
           IF apiKey \in {NULL, ""}
           THEN [pc |-> "done", apiKey |-> apiKey, calls |-> 0, upstream |-> NoAnswer,
                 sent |-> <<Sent(400, "{\"error\":\"API key is required\"}")>>]
           ELSE [pc |-> "fetch", apiKey |-> apiKey, calls |-> 1, upstream |-> NoAnswer, sent |-> <<>>]]
    /\ ev' = [op |-> "postClaude", r |-> r]
    /\ UNCHANGED <<authVars, permVars, todoVars, legacyVars, appVars, claudeVars, restVars>>

\* fetch resolves with the upstream answer.
FetchResolved(r, status, text) ==
    /\ requests[r].pc = "fetch"
    /\ requests' = [requests EXCEPT ![r].pc = "json",
                                     ![r].upstream = [fetch |-> "resolved", status |-> status, text |-> text]]
    /\ ev' = [op |-> "step"]
    /\ UNCHANGED <<authVars, permVars, todoVars, legacyVars, appVars, claudeVars, restVars>>

\* fetch is rejected (the upstream API was not reached): the catch answers 500.
FetchFailed(r) ==
    /\ requests[r].pc = "fetch"
    /\ requests' = [requests EXCEPT ![r].pc = "done", ![r].upstream = [fetch |-> "rejected"],
                                     ![r].sent = Append(@, Sent(500, "{\"error\":\"Internal server error\"}"))]
    /\ ev' = [op |-> "postClaude", r |-> r]
    /\ UNCHANGED <<authVars, permVars, todoVars, legacyVars, appVars, claudeVars, restVars>>

\* response.json() settles: a parsed body is sent on, with the upstream
\* status unless that was 2xx; a SyntaxError goes to the catch, which answers 500.
JsonSettled(r) ==
    /\ requests[r].pc = "json"
    /\ LET response == requests[r].upstream
           data == ResponseJson(response.text)
           answer == IF data = "SyntaxError" THEN Sent(500, "{\"error\":\"Internal server error\"}")
                     ELSE IF ~ResponseOk(response.status) THEN Sent(response.status, data)
                     ELSE Sent(200, data)
       IN requests' = [requests EXCEPT ![r].pc = "done", ![r].sent = Append(@, answer)]
    /\ ev' = [op |-> "postClaude", r |-> r]
    /\ UNCHANGED <<authVars, permVars, todoVars, legacyVars, appVars, claudeVars, restVars>>

\* -------------------------------------------- FirebaseTodoApp (script.js)
fbIsAdmin == fbCurrentUser # NULL /\ Email(fbCurrentUser) = ADMIN_EMAIL

\* handleAuthStateChange(user) up to its await; a sign-out shows the login
\* interface and leaves userPermissions as it was.
FbHandleAuthStateChange(user) ==
    /\ user # fbCurrentUser
    /\ fbCurrentUser' = user
    /\ IF user # NULL
       THEN /\ SumOver(fbLookups, Users) < MaxLookups
            /\ fbLookups' = [fbLookups EXCEPT ![user] = @ + 1]
            /\ ev' = [op |-> "fbSignIn", user |-> user]
       ELSE /\ UNCHANGED fbLookups
            /\ ev' = [op |-> "fbSignOut"]
    /\ UNCHANGED <<authVars, permVars, todoVars, relayVars, appVars, claudeVars, fbUserPermissions, fbCalls, restVars>>

\* checkUserPermissions after its await: the query for uid resolves.
FbCheckUserPermissionsResolved(uid) ==
    /\ fbLookups[uid] > 0
    /\ fbLookups' = [fbLookups EXCEPT ![uid] = @ - 1]
    /\ fbUserPermissions' = IF PermsOf(uid) # {} THEN FirstPerm(uid) ELSE NoPerm
    /\ ev' = [op |-> "fbLookup", ok |-> TRUE, uid |-> uid]
    /\ UNCHANGED <<authVars, permVars, todoVars, relayVars, appVars, claudeVars, fbCurrentUser, fbCalls, restVars>>

\* checkUserPermissions after its await, the query having failed.
FbCheckUserPermissionsFailed(uid) ==
    /\ fbLookups[uid] > 0
    /\ fbLookups' = [fbLookups EXCEPT ![uid] = @ - 1]
    /\ fbUserPermissions' = NoPerm
    /\ ev' = [op |-> "fbLookup", ok |-> FALSE, uid |-> uid]
    /\ UNCHANGED <<authVars, permVars, todoVars, relayVars, appVars, claudeVars, fbCurrentUser, fbCalls, restVars>>

\* approveRequest / denyRequest (requestId, uid) up to the first await. There
\* is no guard: with nobody signed in, reading this.currentUser.email throws
\* inside the try and the catch alerts; otherwise the update is issued.
FbReviewRequest(kind, r) ==
    /\ Cardinality(fbCalls) < MaxAdminCalls
    /\ IF fbCurrentUser = NULL
       THEN /\ ev' = [op |-> "fbReview", kind |-> kind, admin |-> fbIsAdmin, writes |-> 0, alerted |-> TRUE]
            /\ UNCHANGED fbCalls
       ELSE /\ fbCalls' = fbCalls \cup {[kind |-> kind, requestId |-> r.id, uid |-> r.uid,
                                         pc |-> "await1", by |-> Email(fbCurrentUser), permId |-> 0]}
            /\ ev' = [op |-> "fbReview", kind |-> kind, admin |-> fbIsAdmin, writes |-> 1, alerted |-> FALSE]
    /\ UNCHANGED <<authVars, permVars, todoVars, relayVars, appVars, claudeVars, fbCurrentUser, fbUserPermissions, fbLookups, restVars>>

\* The accessRequests update resolves; the handler issues the userPermissions query.
FbReviewRequestUpdated(c) ==
    /\ c.pc = "await1"
    /\ reqDocs' = UpdateReq(c.requestId, ReviewStatus(c.kind), c.by)
    /\ fbCalls' = (fbCalls \ {c}) \cup {[c EXCEPT !.pc = "await2"]}
    /\ ev' = [op |-> "step"]
    /\ UNCHANGED <<authVars, submitCall, adminCalls, permDocs, todoVars, relayVars, appVars, claudeVars, fbCurrentUser, fbUserPermissions, fbLookups, restVars>>

\* The query resolves: unless the snapshot is empty, the handler issues the
\* update of docs[0].
FbReviewQueryResolved(c) ==
    /\ c.pc = "await2"
    /\ IF PermsOf(c.uid) # {}
       THEN /\ fbCalls' = (fbCalls \ {c}) \cup {[c EXCEPT !.pc = "await3", !.permId = FirstPerm(c.uid).id]}
            /\ ev' = [op |-> "fbReviewWrite", admin |-> fbIsAdmin]
       ELSE /\ fbCalls' = fbCalls \ {c}
            /\ ev' = [op |-> "fbReviewed", ok |-> TRUE]
    /\ UNCHANGED <<authVars, permVars, todoVars, relayVars, appVars, claudeVars, fbCurrentUser, fbUserPermissions, fbLookups, restVars>>

\* The userPermissions update resolves; the handler returns.
FbReviewPermissionUpdated(c) ==
    /\ c.pc = "await3"
    /\ permDocs' = UpdatePerm(c.permId, ReviewStatus(c.kind))
    /\ fbCalls' = fbCalls \ {c}
    /\ ev' = [op |-> "fbReviewed", ok |-> TRUE]
    /\ UNCHANGED <<authVars, submitCall, adminCalls, reqDocs, todoVars, relayVars, appVars, claudeVars, fbCurrentUser, fbUserPermissions, fbLookups, restVars>>

\* Any of the three awaited calls is rejected: the catch alerts.
FbReviewBackendFailed(c) ==
    /\ fbCalls' = fbCalls \ {c}
    /\ ev' = [op |-> "fbReviewed", ok |-> FALSE]
    /\ UNCHANGED <<authVars, permVars, todoVars, relayVars, appVars, claudeVars, fbCurrentUser, fbUserPermissions, fbLookups, restVars>>

AuthEvents ==
    \/ \E user \in Users \cup {NULL} : HandleAuthStateChange(user)
    \/ \E uid \in Users : CheckUserPermissionsResolved(uid)
    \/ \E uid \in Users : CheckUserPermissionsFailed(uid)

SubmitSteps ==
    \/ \E reason \in Reasons : SubmitAccessRequest(reason)
    \/ SubmitRequestWritten
    \/ SubmitRequestWriteFailed
    \/ SubmitPermissionWritten
    \/ SubmitPermissionWriteFailed

ReviewSteps ==
    \/ \E kind \in {"approve", "deny"}, r \in reqDocs : ReviewRequest(kind, r)
    \/ \E c \in adminCalls : ReviewRequestUpdated(c)
    \/ \E c \in adminCalls : ReviewQueryResolved(c)
    \/ \E c \in adminCalls : ReviewPermissionUpdated(c)
    \/ \E c \in adminCalls : ReviewBackendFailed(c)

AddSteps ==
    \/ \E text \in Texts, file \in Files : AddTodo(text, file)
    \/ AddTodoUploaded
    \/ AddTodoUrlResolved
    \/ AddTodoUploadFailed
    \/ TodoWriteResolved
    \/ TodoWriteFailed

TodoSteps ==
    \/ FeedPush
    \/ AddSteps
    \/ \E todoId \in 1..MaxTodos, currentStatus \in BOOLEAN : ToggleTodo(todoId, currentStatus)
    \/ ClearCompletedTodos
    \/ \E confirmed \in BOOLEAN : ClearAllTodos(confirmed)

\* ------------------------------------------------------------ ClaudeService
ClaudeMethods == {"getSummary", "getProductivityInsights", "getTaskSuggestions"}

\* JavaScript truthiness of a key: null and the empty string are falsy.
Truthy(key) == key \notin {NULL, ""}

\* ClaudeService.canAccess.
canAccess == canAccessClaude

\* getApiKey: the key held, or the answer to the prompt shown when none is held.
getApiKey(answer) == IF ~Truthy(claudeApiKey) /\ Truthy(answer) THEN answer ELSE claudeApiKey

\* What a method was called with: the caller, the key held, and the answer
\* the user would give to the prompt.
ClaudeArgs(answer) ==
    [user |-> currentUser, status |-> getUserStatus, access |-> canAccess, held |-> claudeApiKey, answer |-> answer]

\* getSummary, getProductivityInsights, getTaskSuggestions up to the fetch:
\* the access test, then the key (a truthy answer to the prompt is stored by
\* setApiKey), then the POST to the relay.
ClaudeRequest(method, answer) ==
    /\ claudeCall.pc = "idle"
    /\ IF ~canAccess
       THEN /\ ev' = [op |-> method, thrown |-> TRUE, requests |-> 0, key |-> NULL, in |-> ClaudeArgs(answer)]
            /\ UNCHANGED claudeVars
       ELSE /\ claudeApiKey' = getApiKey(answer)
            /\ storedKey' = IF ~Truthy(claudeApiKey) /\ Truthy(answer) THEN answer ELSE storedKey
            /\ IF ~Truthy(getApiKey(answer))
               THEN /\ ev' = [op |-> method, thrown |-> TRUE, requests |-> 0, key |-> getApiKey(answer), in |-> ClaudeArgs(answer)]
                    /\ UNCHANGED claudeCall
               ELSE /\ ev' = [op |-> method, thrown |-> FALSE, requests |-> 1, key |-> getApiKey(answer), in |-> ClaudeArgs(answer)]
                    /\ claudeCall' = [pc |-> "fetch", op |-> method, ok |-> FALSE]
    /\ UNCHANGED <<authVars, permVars, todoVars, legacyVars, relayVars, appVars, restVars>>

\* The fetch resolves with a response; response.json() is awaited whether
\* response.ok or not.
ClaudeFetchResolved(ok) ==
    /\ claudeCall.pc = "fetch"
    /\ claudeCall' = [claudeCall EXCEPT !.pc = "json", !.ok = ok]
    /\ ev' = [op |-> "claudeStep"]
    /\ UNCHANGED <<authVars, permVars, todoVars, legacyVars, relayVars, appVars, claudeApiKey, storedKey, restVars>>

\* The fetch rejects (the relay is not reachable): the method throws.
ClaudeFetchFailed ==
    /\ claudeCall.pc = "fetch"
    /\ claudeCall' = NoClaudeCall
    /\ ev' = [op |-> "claudeReturned", call |-> claudeCall.op, ok |-> FALSE]
    /\ UNCHANGED <<authVars, permVars, todoVars, legacyVars, relayVars, appVars, claudeApiKey, storedKey, restVars>>

\* response.json() settles: the method returns the text of a parsed body of
\* an ok response and throws otherwise.
ClaudeJsonSettled(parsed) ==
    /\ claudeCall.pc = "json"
    /\ claudeCall' = NoClaudeCall
    /\ ev' = [op |-> "claudeReturned", call |-> claudeCall.op, ok |-> claudeCall.ok /\ parsed]
    /\ UNCHANGED <<authVars, permVars, todoVars, legacyVars, relayVars, appVars, claudeApiKey, storedKey, restVars>>

\* ClaudeComponent.setupApiKey: a truthy answer to its prompt goes to setApiKey.
SetupApiKey(answer) ==
    /\ IF Truthy(answer)
       THEN claudeApiKey' = answer /\ storedKey' = answer
       ELSE UNCHANGED <<claudeApiKey, storedKey>>
    /\ ev' = [op |-> "setupApiKey", answer |-> answer]
    /\ UNCHANGED <<authVars, permVars, todoVars, legacyVars, relayVars, appVars, claudeCall, restVars>>

\* clearApiKey.
ClearApiKey ==
    /\ claudeApiKey' = NULL
    /\ storedKey' = NULL
    /\ ev' = [op |-> "clearApiKey"]
    /\ UNCHANGED <<authVars, permVars, todoVars, legacyVars, relayVars, appVars, claudeCall, restVars>>

ClaudeSteps ==
    \/ \E method \in ClaudeMethods, answer \in ApiKeyInputs : ClaudeRequest(method, answer)
    \/ \E ok \in BOOLEAN : ClaudeFetchResolved(ok)
    \/ ClaudeFetchFailed
    \/ \E parsed \in BOOLEAN : ClaudeJsonSettled(parsed)
    \/ \E answer \in ApiKeyInputs : SetupApiKey(answer)
    \/ ClearApiKey

AppSteps ==
    \/ AppInit
    \/ AppInitFirebaseDone
    \/ AppInitAuthDone
    \/ AppInitTodoDone
    \/ Refresh
    \/ Destroy

DeleteSteps ==
    \/ \E todoId \in 1..MaxTodos, createdBy \in Users : DeleteTodo(todoId, createdBy)
    \/ \E id \in 1..MaxTodos : DeleteResolved(id)
    \/ \E id \in 1..MaxTodos : DeleteFailed(id)

ClearSteps ==
    \/ ClearCompletedTodos
    \/ \E confirmed \in BOOLEAN : ClearAllTodos(confirmed)
    \/ \E id \in 1..MaxStored : DeleteResolved(id)
    \/ \E id \in 1..MaxStored : DeleteFailed(id)

RelaySteps ==
    \/ \E r \in 1..MaxRequests, apiKey \in ApiKeys : PostClaude(r, apiKey)
    \/ \E r \in 1..MaxRequests, status \in UpstreamStatuses, text \in UpstreamBodies : FetchResolved(r, status, text)
    \/ \E r \in 1..MaxRequests : FetchFailed(r)
    \/ \E r \in 1..MaxRequests : JsonSettled(r)

LegacySteps ==
    \/ \E user \in Users \cup {NULL} : FbHandleAuthStateChange(user)
    \/ \E uid \in Users : FbCheckUserPermissionsResolved(uid)
    \/ \E uid \in Users : FbCheckUserPermissionsFailed(uid)
    \/ \E kind \in {"approve", "deny"}, r \in reqDocs : FbReviewRequest(kind, r)
    \/ \E c \in fbCalls : FbReviewRequestUpdated(c)
    \/ \E c \in fbCalls : FbReviewQueryResolved(c)
    \/ \E c \in fbCalls : FbReviewPermissionUpdated(c)
    \/ \E c \in fbCalls : FbReviewBackendFailed(c)

\* Identity events, permission lookups and access requests.
NextAuth == AuthEvents \/ SubmitSteps

SpecAuth == InitAuth /\ [][NextAuth]_vars

\* Identity events, permission lookups and the admin's reviews.
NextReview == AuthEvents \/ ReviewSteps

SpecReview == InitReview /\ [][NextReview]_vars

\* The same, every pending lookup and every backend call of a review being
\* settled in the end.
LookupSettles == \E uid \in Users : CheckUserPermissionsResolved(uid) \/ CheckUserPermissionsFailed(uid)

ReviewCallSettles ==
    \E c \in adminCalls : \/ ReviewRequestUpdated(c)
                           \/ ReviewQueryResolved(c)
                           \/ ReviewPermissionUpdated(c)
                           \/ ReviewBackendFailed(c)

SpecReviewLive == SpecReview /\ WF_vars(LookupSettles) /\ WF_vars(ReviewCallSettles)

\* The single-file application: its identity events and its reviews.
NextLegacy == LegacySteps

SpecLegacy == InitLegacy /\ [][NextLegacy]_vars

\* Identity events, permission lookups and the to-do list.
NextTodo == AuthEvents \/ TodoSteps \/ DeleteSteps

SpecTodo == InitTodo /\ [][NextTodo]_vars

\* Identity events, permission lookups, the feed and addTodo.
NextAdd == AuthEvents \/ FeedPush \/ AddSteps

SpecAdd == InitTodo /\ [][NextAdd]_vars

\* The feed and getStatistics over a stored list.
NextStats == FeedPush \/ GetStatistics

SpecStats == InitStats /\ [][NextStats]_vars

\* The relay serving its requests.
InitRelay == Constructed /\ NoKeyStored /\ AppStarted /\ RenderingLeftOut /\ StoreWithReviewedUsers /\ NoTodosStored

NextRelay == RelaySteps

SpecRelay == InitRelay /\ [][NextRelay]_vars

\* Identity events, permission lookups, the feed and the two clear calls over a stored list.
NextClear == AuthEvents \/ FeedPush \/ ClearSteps

SpecClear == InitClear /\ [][NextClear]_vars

\* Identity events, permission lookups, the feed and deleteTodo over a stored list.
NextDelete == AuthEvents \/ FeedPush \/ DeleteSteps

SpecDelete == InitDelete /\ [][NextDelete]_vars

\* A session of the approved user u1: the state InitTodo reaches when u1 has
\* signed in and the lookup of the sign-in has resolved.
InitSession ==
    /\ currentUser = "u1"
    /\ StoreWithReviewedUsers
    /\ userPermissions = FirstPerm("u1")
    /\ lookups = [u \in Users |-> 0]
    /\ submitCall = NoSubmit
    /\ adminCalls = {}
    /\ todos = <<>>
    /\ todoCall = NoCall
    /\ deletesInFlight = {}
    /\ toggled = NoToggles
    /\ requests = [r \in 1..MaxRequests |-> NoRequest]
    /\ claudeCall = NoClaudeCall
    /\ fbCurrentUser = NULL
    /\ fbUserPermissions = NoPerm
    /\ fbLookups = [u \in Users |-> 0]
    /\ fbCalls = {}
    /\ ev = [op |-> "lookup", ok |-> TRUE, uid |-> "u1"]
    /\ shown = NothingShown
    /\ RenderingLeftOut
    /\ adminUnsubscribe = 0
    /\ adminFeeds = [s \in 1..MaxFeeds |-> NoFeed]
    /\ accessRequests = <<>>
    /\ handles = <<>>
    /\ localTodos = <<>>
    /\ savedTodos = NoItem
    /\ NoKeyStored
    /\ AppStarted
    /\ NoTodosStored

\* The five mutation operations and the feed within that session.
NextSession == TodoSteps \/ DeleteSteps

SpecSession == InitSession /\ [][NextSession]_vars

\* Identity events, permission lookups and the ClaudeService calls, with or
\* without a key stored by an earlier session.
InitClaude == Constructed /\ KeyOfEarlierSessions /\ AppStarted /\ RenderingLeftOut /\ StoreWithReviewedUsers /\ NoTodosStored

NextClaude == AuthEvents \/ ClaudeSteps

SpecClaude == InitClaude /\ [][NextClaude]_vars

\* Identity events, permission lookups, addTodo and the feed with its errors.
NextPush == AuthEvents \/ AddSteps \/ FeedPush \/ (\E s \in 1..MaxFeeds : FeedError(s))

SpecPush == InitTodo /\ [][NextPush]_vars

\* The backend delivers every snapshot an open subscription is owed.
SpecPushLive == SpecPush /\ WF_vars(FeedPush)

\* The page from its construction: init, refresh and destroy, with identity
\* events, addTodo and the feed.
InitFeed == Constructed /\ AppConstructed /\ NoKeyStored /\ StoreWithReviewedUsers /\ NoTodosStored

NextFeed == AuthEvents \/ AddSteps \/ FeedPush \/ AppSteps

SpecFeed == InitFeed /\ [][NextFeed]_vars

\* The page with its components listening: identity events, permission
\* lookups, access requests and the admin panel's feed.
InitPage == Constructed /\ NoKeyStored /\ AppStarted /\ ComponentsListening /\ StoreOfEarlierSessions(FALSE) /\ NoTodosStored

NextPage == AuthEvents \/ SubmitSteps \/ (\E s \in 1..MaxFeeds : AdminFeedPush(s))

SpecPage == InitPage /\ [][NextPage]_vars

\* ------------------------------------------------ TodoApp on local storage
\* JSON.stringify of a string: the quote and the backslash are escaped.
RECURSIVE EscapeJson(_)
EscapeJson(s) ==
    IF s = <<>> THEN <<>>
    ELSE (IF Head(s) \in {"\"", "\\"} THEN <<"\\", Head(s)>> ELSE <<Head(s)>>) \o EscapeJson(Tail(s))

Quoted(s) == <<"\"">> \o EscapeJson(s) \o <<"\"">>

\* new Date().toISOString() of the clock's value.
IsoString(now) == <<"T", ToString(now)>>

\* JSON.stringify of the list: per to-do its id as a numeral, its text quoted,
\* its flag as true or false, its creation time quoted.
RECURSIVE StringifyTodos(_)
StringifyTodos(list) ==
    IF list = <<>> THEN <<"]">>
    ELSE <<"{", ToString(Head(list).id)>> \o Quoted(Head(list).text)
         \o <<IF Head(list).completed THEN "true" ELSE "false">>
         \o Quoted(Head(list).createdAt) \o <<"}">> \o StringifyTodos(Tail(list))

JsonStringify(list) == <<"[">> \o StringifyTodos(list)

\* JSON.parse of a numeral.
NumberOf(numeral) == CHOOSE n \in Clock : ToString(n) = numeral

\* JSON.parse of a string after its opening quote: the characters up to the
\* closing quote, an escaped character taken as itself, and the text left.
RECURSIVE ReadString(_, _)
ReadString(t, acc) ==
    IF Head(t) = "\"" THEN [value |-> acc, rest |-> Tail(t)]
    ELSE IF Head(t) = "\\" THEN ReadString(Tail(Tail(t)), Append(acc, t[2]))
    ELSE ReadString(Tail(t), Append(acc, Head(t)))

RECURSIVE ParseTodos(_)
ParseTodos(t) ==
    IF Head(t) = "]" THEN <<>>
    ELSE LET text == ReadString(SubSeq(t, 4, Len(t)), <<>>)
             createdAt == ReadString(Tail(Tail(text.rest)), <<>>)
         IN <<[id |-> NumberOf(t[2]), text |-> text.value,
               completed |-> (Head(text.rest) = "true"),
               createdAt |-> createdAt.value]>> \o ParseTodos(Tail(createdAt.rest))

\* The constructor's JSON.parse(localStorage.getItem('todos')) || [].
LoadTodos(item) == IF item = NoItem THEN <<>> ELSE ParseTodos(Tail(item))

\* Array.prototype.find by id: the first position holding the id, 0 for none.
FindTodo(list, id) ==
    IF \E i \in 1..Len(list) : list[i].id = id
    THEN CHOOSE i \in 1..Len(list) : list[i].id = id /\ \A j \in 1..(i - 1) : list[j].id # id
    ELSE 0

LocalFrame == UNCHANGED <<authVars, permVars, todoVars, legacyVars, relayVars, appVars, claudeVars, uiVars, handleVars>>

\* new TodoApp(): the page is loaded again and reads the stored list.
LocalConstruct ==
    /\ localTodos' = LoadTodos(savedTodos)
    /\ UNCHANGED savedTodos
    /\ ev' = [op |-> "localConstruct"]
    /\ LocalFrame

LocalAddTodo(input, now) ==
    /\ IF Trim(input) = <<>>
       THEN UNCHANGED localVars
       ELSE /\ Len(localTodos) < MaxLocal
            /\ localTodos' = Append(localTodos, [id |-> now, text |-> Trim(input), completed |-> FALSE, createdAt |-> IsoString(now)])
            /\ savedTodos' = JsonStringify(localTodos')
    /\ ev' = [op |-> "localAdd", input |-> input, added |-> Trim(input) # <<>>]
    /\ LocalFrame

\* toggleTodo without its saveTodos.
LocalToggleTodoUnsaved(id) ==
    /\ IF FindTodo(localTodos, id) # 0
       THEN /\ localTodos' = [localTodos EXCEPT ![FindTodo(localTodos, id)].completed = ~@]
            /\ UNCHANGED savedTodos
       ELSE UNCHANGED localVars
    /\ ev' = [op |-> "localToggle", id |-> id, found |-> FindTodo(localTodos, id) # 0]
    /\ LocalFrame

LocalToggleTodo(id) ==
    /\ IF FindTodo(localTodos, id) # 0
       THEN /\ localTodos' = [localTodos EXCEPT ![FindTodo(localTodos, id)].completed = ~@]
            /\ savedTodos' = JsonStringify(localTodos')
       ELSE UNCHANGED localVars
    /\ ev' = [op |-> "localToggle", id |-> id, found |-> FindTodo(localTodos, id) # 0]
    /\ LocalFrame

\* deleteTodo: Array.prototype.filter keeps the to-dos with another id.
LocalDeleteTodo(id) ==
    /\ LET keep(todo) == todo.id # id IN localTodos' = SelectSeq(localTodos, keep)
    /\ savedTodos' = JsonStringify(localTodos')
    /\ ev' = [op |-> "localDelete", id |-> id]
    /\ LocalFrame

LocalClearCompletedTodos ==
    /\ LET keep(todo) == ~todo.completed IN localTodos' = SelectSeq(localTodos, keep)
    /\ savedTodos' = JsonStringify(localTodos')
    /\ ev' = [op |-> "localClearCompleted"]
    /\ LocalFrame

LocalClearAllTodos(confirmed) ==
    /\ IF localTodos # <<>> /\ confirmed
       THEN /\ localTodos' = <<>>
            /\ savedTodos' = JsonStringify(localTodos')
       ELSE UNCHANGED localVars
    /\ ev' = [op |-> "localClearAll", confirmed |-> confirmed, asked |-> localTodos # <<>>]
    /\ LocalFrame

LocalSteps ==
    \/ LocalConstruct
    \/ \E input \in LocalInputs, now \in Clock : LocalAddTodo(input, now)
    \/ \E id \in Clock : LocalToggleTodo(id)
    \/ \E id \in Clock : LocalDeleteTodo(id)
    \/ LocalClearCompletedTodos
    \/ \E confirmed \in BOOLEAN : LocalClearAllTodos(confirmed)

\* The local-storage page on a browser that never held the key.
InitLocal == Constructed /\ NoKeyStored /\ AppStarted /\ RenderingLeftOut /\ StoreWithReviewedUsers /\ NoTodosStored

NextLocal == LocalSteps

SpecLocal == InitLocal /\ [][NextLocal]_vars

\* ------------------------------------------------- unsubscribe functions
\* Array.prototype.indexOf: the first position holding the callback, 0 for -1.
IndexOf(listeners, callback) ==
    IF \E i \in 1..Len(listeners) : listeners[i] = callback
    THEN CHOOSE i \in 1..Len(listeners) : listeners[i] = callback /\ \A j \in 1..(i - 1) : listeners[j] # callback
    ELSE 0

\* listeners.splice(index, 1).
Splice(listeners, index) == SubSeq(listeners, 1, index - 1) \o SubSeq(listeners, index + 1, Len(listeners))

\* The function onAuthStateChange and onTodosChange return: the callback's
\* first position is looked up and removed when there is one.
RemoveListener(listeners, callback) ==
    IF IndexOf(listeners, callback) > 0 THEN Splice(listeners, IndexOf(listeners, callback)) ELSE listeners

HandleFrame == UNCHANGED <<authVars, permVars, todoVars, legacyVars, relayVars, claudeVars, localVars, shown, adminUnsubscribe, adminFeeds, accessRequests, unsubscribe, feeds, initialized, initCalls, firebaseReady, authObserved>>

\* AuthService.onAuthStateChange(callback): the callback is pushed and the
\* caller receives the function that removes it.
OnAuthStateChange(callback) ==
    /\ Len(handles) < MaxHandles
    /\ authStateListeners' = Append(authStateListeners, callback)
    /\ handles' = Append(handles, [registry |-> "auth", callback |-> callback, called |-> "never"])
    /\ ev' = [op |-> "register", registry |-> "auth", callback |-> callback]
    /\ UNCHANGED todoListeners
    /\ HandleFrame

\* TodoService.onTodosChange(callback).
OnTodosChange(callback) ==
    /\ Len(handles) < MaxHandles
    /\ todoListeners' = Append(todoListeners, callback)
    /\ handles' = Append(handles, [registry |-> "todos", callback |-> callback, called |-> "never"])
    /\ ev' = [op |-> "register", registry |-> "todos", callback |-> callback]
    /\ UNCHANGED authStateListeners
    /\ HandleFrame

\* A caller calls the function that registration h returned, for the first
\* or for the second time.
Unsubscribe(h) ==
    /\ handles[h].called # "twice"
    /\ IF handles[h].registry = "auth"
       THEN /\ authStateListeners' = RemoveListener(authStateListeners, handles[h].callback)
            /\ UNCHANGED todoListeners
       ELSE /\ todoListeners' = RemoveListener(todoListeners, handles[h].callback)
            /\ UNCHANGED authStateListeners
    /\ handles' = [handles EXCEPT ![h].called = IF @ = "never" THEN "once" ELSE "twice"]
    /\ ev' = [op |-> "unsubscribe", handle |-> h, again |-> handles[h].called # "never"]
    /\ HandleFrame

HandleSteps ==
    \/ \E callback \in Callbacks : OnAuthStateChange(callback)
    \/ \E callback \in Callbacks : OnTodosChange(callback)
    \/ \E h \in 1..Len(handles) : Unsubscribe(h)

\* The started page and callers that register further callbacks.
InitHandles == Constructed /\ NoKeyStored /\ AppStarted /\ ComponentsListening /\ StoreWithReviewedUsers /\ NoTodosStored

NextHandles == HandleSteps

SpecHandles == InitHandles /\ [][NextHandles]_vars

\* ------------------------------------------------------------------ claims

\* C2: in every reachable state isApproved() is true exactly when
\* getUserStatus() is 'admin' or 'approved'.
C2_ApprovedIffAdminOrApproved ==
    isApproved <=> getUserStatus \in {"admin", "approved"}

\* C4: when a permission lookup has failed and handleAuthStateChange has run to
\* its end, the cached record is null whatever was cached before, and for a
\* signed-in non-admin user getUserStatus() is 'new' and isApproved() is false.
C4_LookupFailureFailsClosed ==
    (ev.op = "lookup" /\ ~ev.ok) =>
        /\ userPermissions = NoPerm
        /\ (currentUser # NULL /\ Email(currentUser) # ADMIN_EMAIL) =>
               (getUserStatus = "new" /\ ~isApproved)

\* A lookup fails for a signed-in non-admin user while an approved record is cached.
C4_Witness ==
    /\ ev.op = "lookup" /\ ~ev.ok /\ ev.before = "approved"
    /\ currentUser # NULL /\ Email(currentUser) # ADMIN_EMAIL

\* C5: getUserStatus() is 'unauthenticated' with nobody signed in, 'admin' for
\* the admin address whatever record is cached, otherwise the status of the
\* cached record, and 'new' when the cached record is null.
C5_UserStatusByCase ==
    getUserStatus =
        IF currentUser = NULL THEN "unauthenticated"
        ELSE IF Email(currentUser) = ADMIN_EMAIL THEN "admin"
        ELSE IF userPermissions = NoPerm THEN "new"
        ELSE userPermissions.status

\* The admin is signed in with a pending record of their own cached.
C5_Witness ==
    /\ currentUser = "admin"
    /\ userPermissions.status = "pending"
    /\ userPermissions.uid = "admin"

\* C6: when a signed-in user in state new (no PermissionRecord) submits a
\* non-blank reason and both writes succeed, the request and the one permission
\* record added carry that user's uid with status 'pending', and
\* getUserStatus() is 'pending' for that user afterwards.
C6_SubmitMakesCallerPending ==
    (ev.op = "submit" /\ ev.ok /\ ev.isNew) =>
        /\ ReqDoc(ev.reqId).uid = ev.caller
        /\ PermDoc(ev.permId).uid = ev.caller
        /\ PermDoc(ev.permId).status = "pending"
        /\ Cardinality(PermsOf(ev.caller)) = 1
        /\ currentUser = ev.caller => getUserStatus = "pending"

\* C7: the store never holds two PermissionRecords with the same uid.
C7_OnePermissionRecordPerUser ==
    \A u \in Users : Cardinality(PermsOf(u)) <= 1

\* C8: when an approveRequest or denyRequest call has completed without error
\* and no other call on the same request is still running, the request and the
\* permission record of its uid have the same status.
C8_ReviewKeepsStatusesEqual ==
    (/\ ev.op \in {"approve", "deny"}
     /\ ev.ok
     /\ \A c \in adminCalls : c.requestId # ev.requestId
     /\ PermsOf(ev.uid) # {})
        => FirstPerm(ev.uid).status = ReqDoc(ev.requestId).status

\* C10: when approveRequest has completed successfully, the request and the
\* permission record of uid are both 'approved'; and a refresh of that user
\* that reads an approved record yields 'approved' and isApproved().
C10_ApproveThenRefreshApproved ==
    /\ (ev.op = "approve" /\ ev.ok) =>
           /\ ReqDoc(ev.requestId).status = "approved"
           /\ PermsOf(ev.uid) # {}
           /\ FirstPerm(ev.uid).status = "approved"
    /\ (/\ ev.op = "lookup" /\ ev.ok /\ ev.uid = currentUser
        /\ PermsOf(ev.uid) # {}
        /\ FirstPerm(ev.uid).status = "approved")
           => (getUserStatus \in {"approved", "admin"} /\ isApproved)

C3_SignedOutIssuesNoWrites ==
    (currentUser = NULL /\ ev.op \in {"addTodo", "toggleTodo", "deleteTodo", "clearCompletedTodos", "clearAllTodos"})
        => (ev.uploads = 0 /\ ev.writes = 0 /\ ev.thrown)

\* C9: no approve/deny entry point issues an update to an AccessRequest or a
\* PermissionRecord unless the current user is the admin; a call by anybody
\* else is rejected with an error and writes nothing.
C9_OnlyAdminIssuesReviewUpdates ==
    /\ ev.op = "fbReview" => /\ ev.writes = (IF ev.admin THEN 1 ELSE 0)
                             /\ ev.alerted <=> ~ev.admin
    /\ ev.op = "fbReviewWrite" => ev.admin

\* C11: an AccessRequest that is 'approved' or 'denied' is never changed
\* again: no step alters its status or its reviewedBy.
C11_ReviewedRequestNeverChanges ==
    [][\A r \in reqDocs : r.status # "pending" => r \in reqDocs']_vars

\* C12: addTodo throws and issues neither an upload nor a write when nobody
\* is signed in, when the caller's state is neither approved nor admin, or
\* when the text is empty or all blanks.
C12_AddTodoRejects ==
    ev.op = "addTodo" =>
        LET blank == \A i \in 1..Len(ev.in.text) : ev.in.text[i] = " "
        IN (ev.in.user = NULL \/ ev.in.status \notin {"approved", "admin"} \/ blank)
               => (ev.thrown /\ ev.uploads = 0 /\ ev.writes = 0 /\ todoCall.pc = "idle")

\* An approved user has called addTodo with a blank text.
C12_Witness ==
    /\ ev.op = "addTodo"
    /\ ev.in.status = "approved"
    /\ ev.in.text = <<" ">>
    /\ ev.thrown

\* C13: with an image, the item write is issued only when getDownloadURL has
\* resolved, which is issued only when uploadBytes has resolved, and the item
\* carries the download URL; when either fails the call throws and the store
\* is left as it was.
C13_WriteOnlyAfterUpload ==
    [][/\ (todoCall'.pc = "getDownloadURL" /\ todoCall.pc # "getDownloadURL") => todoCall.pc = "uploadBytes"
       /\ (todoCall'.pc = "write" /\ todoCall.pc # "write" /\ todoCall'.op = "addTodo" /\ todoCall'.in.file # NULL)
              => (todoCall.pc = "getDownloadURL" /\ todoCall'.doc.imageUrl = DownloadUrl(todoCall'.in.file))
       /\ (todoCall.pc \in {"uploadBytes", "getDownloadURL"} /\ todoCall'.pc \notin {"uploadBytes", "getDownloadURL", "write"})
              => (todoDocs' = todoDocs /\ ev'.op = "returned" /\ ev'.call = "addTodo" /\ ~ev'.ok)
      ]_vars

\* The retrieval of the download URL has failed and addTodo has thrown.
C13_Witness ==
    /\ ev.op = "returned"
    /\ ev.call = "addTodo"
    /\ ~ev.ok
    /\ "at" \in DOMAIN ev
    /\ ev.at = "getDownloadURL"

\* C14: the item a successful addTodo has written is not completed, its text
\* is the input without its leading and trailing blanks and is not empty, its
\* imageUrl is null when no file was given, its creator is the user signed in
\* when addTodo was invoked, and that user's state was approved or admin then.
C14_WrittenItemMatchesInvocation ==
    (ev.op = "returned" /\ ev.call = "addTodo" /\ ev.ok) =>
        \E d \in todoDocs :
            /\ d.id = ev.id
            /\ d.completed = FALSE
            /\ d.text # <<>> /\ d.text[1] # " " /\ d.text[Len(d.text)] # " "
            /\ \E i, j \in 0..Len(ev.in.text) :
                   /\ i + Len(d.text) + j = Len(ev.in.text)
                   /\ SubSeq(ev.in.text, i + 1, i + Len(d.text)) = d.text
                   /\ \A k \in (1..i) \cup ((i + Len(d.text) + 1)..Len(ev.in.text)) : ev.in.text[k] = " "
            /\ ev.in.file = NULL => d.imageUrl = NULL
            /\ ev.in.file # NULL => d.imageUrl = DownloadUrl(ev.in.file)
            /\ d.uid = ev.in.user
            /\ ev.in.user # NULL
            /\ ev.in.status \in {"approved", "admin"}

\* An item with an image has been written after its creator signed out.
C14_Witness ==
    /\ ev.op = "returned"
    /\ ev.call = "addTodo"
    /\ ev.ok
    /\ ev.in.file # NULL
    /\ ev.in.text = <<"a", " ">>
    /\ currentUser # ev.in.user

\* C15: toggleTodo throws and issues no write unless the caller's state is
\* approved or admin; otherwise it issues one update of item todoId that sets
\* completed to the negation of currentStatus, whoever created the item; and
\* no step changes the text, imageUrl or creator of an existing item.
C15_ToggleWritesOnlyCompleted ==
    [][/\ ev'.op = "toggleTodo" =>
              IF ev'.in.status \in {"approved", "admin"}
              THEN /\ ~ev'.thrown /\ ev'.writes = 1 /\ ev'.uploads = 0
                   /\ todoCall'.pc = "write" /\ todoCall'.op = "toggleTodo"
                   /\ todoCall'.id = ev'.in.todoId
                   /\ todoCall'.completed = ~ev'.in.currentStatus
              ELSE ev'.thrown /\ ev'.writes = 0 /\ todoCall' = todoCall
       /\ \A d \in todoDocs : \A e \in todoDocs' :
              e.id = d.id => (e.text = d.text /\ e.imageUrl = d.imageUrl /\ e.uid = d.uid)
       /\ (todoCall.pc = "write" /\ todoCall.op = "toggleTodo" /\ todoDocs' # todoDocs) =>
              \A e \in todoDocs' : IF e.id = todoCall.id THEN e.completed = todoCall.completed ELSE e \in todoDocs
      ]_vars

\* C16: after an approved user has toggled one item twice in succession, each
\* time with the completed flag of the last rendered snapshot, the item's
\* completed flag in the store is the one it had before the first toggle.
C16_ToggleTwiceRestores ==
    toggled.n = 2 => \A d \in todoDocs : d.id = toggled.id => d.completed = toggled.orig

\* C17: for a cached list of T items of which C are completed, getStatistics
\* returns total T, completed C, pending T - C and completionRate
\* round(100 * C / T) (a half rounding up), 0 when T = 0; so total is
\* completed + pending and completionRate lies in 0..100.
C17_StatisticsOfCachedList ==
    ev.op = "getStatistics" =>
        LET T == Len(todos)
            C == Cardinality({i \in 1..Len(todos) : todos[i].completed})
        IN /\ ev.stats.total = T
           /\ ev.stats.completed = C
           /\ ev.stats.pending = T - C
           /\ ev.stats.total = ev.stats.completed + ev.stats.pending
           /\ ev.stats.completionRate \in 0..100
           /\ ev.stats.completionRate = IF T > 0 THEN (200 * C + T) \div (2 * T) ELSE 0

ClearOps == {"clearCompletedTodos", "clearAllTodos"}

C19_BatchReportsAfterAllDeletesFinished ==
    /\ []((ev.op = "returned" /\ ev.call \in ClearOps) =>
            /\ ev.unfinished = {}
            /\ ev.ok => \A d \in todoDocs : d.id \notin ev.ids)
    /\ [][/\ ev'.op = "returned" => (todoCall.pc # "idle" /\ todoCall'.pc = "idle")
          /\ todoDocs' \subseteq todoDocs]_vars

\* C20: the relay sends one response per request and none before the handler
\* ends: 400 with no upstream call when the body holds no key; the upstream
\* status and body when the upstream API answered outside 200..299; the
\* upstream JSON body when it answered within; 500 when the upstream call threw.
C20_RelayAnswersOnce ==
    \A r \in 1..MaxRequests :
        LET q == requests[r]
            answered == q.upstream.fetch = "resolved"
            isJson == ResponseJson(q.upstream.text) # "SyntaxError"
        IN /\ (q.pc \in {"fetch", "json"}) => (q.sent = <<>>)
           /\ (q.pc = "done") => (Len(q.sent) = 1)
           /\ (q.pc = "done" /\ q.apiKey = NULL) => (q.sent[1].status = 400 /\ q.calls = 0)
           /\ (q.pc = "done" /\ answered /\ q.upstream.status \notin 200..299)
                  => (q.sent[1].status = q.upstream.status /\ (isJson => q.sent[1].body = ResponseJson(q.upstream.text)))
           /\ (q.pc = "done" /\ answered /\ q.upstream.status \in 200..299 /\ isJson)
                  => (q.sent[1].body = ResponseJson(q.upstream.text))
           /\ (q.pc = "done" /\ q.upstream.fetch = "rejected") => (q.sent[1].status = 500)

\* C22: a submitAccessRequest call made with nobody signed in, or with a
\* reason that is empty or all blanks, throws and issues no write: no call is
\* left in flight.
C22_SubmitRejectsWithoutWrite ==
    (ev.op \in {"submit", "submitIssued"} /\ ev.writes <= 1 /\ "in" \in DOMAIN ev) =>
        LET blank == \A i \in 1..Len(ev.in.reason) : ev.in.reason[i] = " "
        IN (ev.in.user = NULL \/ blank)
               => (ev.op = "submit" /\ ~ev.ok /\ ev.writes = 0 /\ submitCall.pc = "idle")

\* A signed-in user has submitted a reason of blanks only.
C22_Witness ==
    /\ ev.op = "submit"
    /\ ev.writes = 0
    /\ "in" \in DOMAIN ev
    /\ ev.in.user = "u1"
    /\ ev.in.reason = <<" ">>

\* C26: the cached permission record changes only in a step that ends a
\* permission lookup or handles a sign-out.
C26_CacheChangedOnlyByRefresh ==
    [][userPermissions' # userPermissions => ev'.op \in {"lookup", "signOut"}]_vars

\* C30: a cached permission record is the record of the user signed in, and
\* with nobody signed in the cached record is null.
C30_CachedRecordBelongsToCurrentUser ==
    /\ (currentUser # NULL /\ userPermissions # NoPerm) => userPermissions.uid = currentUser
    /\ currentUser = NULL => userPermissions = NoPerm

\* The status of the PermissionRecord the store holds for uid, NULL for none.
StoredStatus(uid) == IF PermsOf(uid) # {} THEN FirstPerm(uid).status ELSE NULL

\* C29: if u1 stays signed in from some point on and no permission lookup
\* fails, the cached permission record comes to show the status of u1's
\* PermissionRecord in the store and goes on showing it.
C29_StoreChangeReachesCache ==
    (<>[](currentUser = "u1") /\ [](ev.op = "lookup" => ev.ok))
        => <>[](userPermissions.status = StoredStatus("u1"))

\* C23: at most one TodoService subscription to the todos feed is active at
\* any time; setting the subscription up again, by refresh or by a second
\* init before the first has finished, leaves no earlier subscription
\* delivering, so that one backend change reaches the listeners once.
C23_AtMostOneSubscription == Cardinality(OpenFeeds) <= 1

\* Two subscriptions deliver, and only the later one's handle is held.
C23_TwoSubscriptionsOpen == Cardinality(OpenFeeds) = 2 /\ unsubscribe = 2

C24_ErrorWitness == ev.op = "feedError" /\ todos = <<>> /\ todoDocs # {}

\* C27: after TodoService.destroy() the handle it held has been called exactly
\* once, the handle is null, the cached list and the listener registry are
\* empty; a second destroy() changes nothing; and until the subscription is
\* set up again no backend change alters the cached list or invokes a
\* listener.
C27_DestroyEndsDelivery ==
    [][/\ ev'.op = "destroy" =>
            /\ unsubscribe' = 0 /\ todos' = <<>> /\ todoListeners' = <<>>
            /\ ev'.handle # 0 => feeds'[ev'.handle].released = 1
            /\ ev.op = "destroy" => UNCHANGED <<feeds, unsubscribe, todos, todoListeners, initialized>>
       /\ (unsubscribe = 0 /\ ev'.op = "feedPush") =>
            (todos' = todos /\ ev'.notified = <<>>)]_vars

\* The page was destroyed with a handle held, and a subscription still delivers.
C27_DeliveryAfterDestroy ==
    /\ ev.op = "feedPush"
    /\ unsubscribe = 0
    /\ todos # <<>>
    /\ \E s \in 1..MaxFeeds : feeds[s].released = 1

\* C28: under fair delivery of the feed, once no further write is issued the
\* cached list eventually equals the backend's todos in feed order and stays
\* so, also after a write failed and after the feed reported an error.
C28_CacheConvergesToStore ==
    <>[](todoCall.pc = "idle") => <>[](todos = Snapshot(todoDocs))

\* The feed has failed and the store holds a todo the cache never received.
C28_StaleAfterFeedError ==
    /\ OpenFeeds = {}
    /\ todoCall.pc = "idle"
    /\ todos # Snapshot(todoDocs)

\* C25: addTodo, toggleTodo, deleteTodo, clearCompletedTodos and clearAllTodos
\* never modify the cached list themselves, at their call or when their
\* writes settle: within a session the cached list changes only by a push
\* of the feed.
C25_OnlyTheFeedChangesTheCache ==
    [][todos' # todos => ev'.op = "feedPush"]_vars

\* A write of the session has landed in the store and the cached list does
\* not show it yet.
C25_Witness ==
    /\ ev.op = "returned"
    /\ ev.ok
    /\ todoDocs # {}
    /\ todos # Snapshot(todoDocs)

\* C21: getSummary, getProductivityInsights and getTaskSuggestions issue no
\* HTTP request to the relay unless the caller is signed in and approved or
\* admin and a non-empty API key is available; otherwise they raise an error.
\* canAccessClaude() is true exactly when the caller is signed in and approved
\* or admin.
C21_RequestOnlyWithAccessAndKey ==
    ev.op \in ClaudeMethods =>
        LET allowed == ev.in.user # NULL /\ ev.in.status \in {"approved", "admin"}
        IN /\ ev.in.access = allowed
           /\ ev.requests = 1 => (allowed /\ ev.key \notin {NULL, ""})
           /\ (~allowed \/ ev.key \in {NULL, ""}) => (ev.thrown /\ ev.requests = 0 /\ claudeCall.pc = "idle")

\* A signed-in user whose request was denied called a method with a key
\* held: it raised and sent nothing.
C21_Witness ==
    /\ ev.op \in ClaudeMethods
    /\ ev.in.status = "denied"
    /\ ev.in.held = "sk-key"
    /\ ev.thrown
    /\ ev.requests = 0

\* An approved user with no key held answered the prompt with a key: the
\* request went out.
C21_RequestWitness ==
    /\ ev.op \in ClaudeMethods
    /\ ev.in.status = "approved"
    /\ ev.in.held = NULL
    /\ ev.requests = 1

\* C31: the item-creation write of addTodo is issued only if the user who
\* invoked addTodo is still signed in and still approved or admin when the
\* write is issued; a sign-out or a change of identity while the image upload
\* is pending prevents the write.
C31_WriteOnlyWhileStillApproved ==
    ev.op = "todoWrite" => (currentUser = ev.by /\ isApproved)

\* The write of an upload was issued for a user who had signed out meanwhile.
C31_WriteAfterSignOut ==
    /\ ev.op = "todoWrite"
    /\ currentUser = NULL
    /\ todoCall.pc = "write"

\* C32: in every reachable state of the store a PermissionRecord with a given
\* uid exists only if an AccessRequest with that uid exists; and a
\* submitAccessRequest call that fails raises without setting the cached
\* permission record.
C32_PermissionRecordHasRequest ==
    [][/\ \A q \in permDocs' : \E r \in reqDocs' : r.uid = q.uid
       /\ (ev'.op = "submit" /\ ~ev'.ok) => userPermissions' = userPermissions]_vars

\* The store holds a PermissionRecord of a user who has no AccessRequest.
C32_RecordWithoutRequest ==
    \E q \in permDocs : \A r \in reqDocs : r.uid # q.uid

\* C33: in the state right after a status-changing operation completed (an
\* auth state change ran to its end, or submitAccessRequest succeeded) the one
\* section shown is the one of getUserStatus(); the input, actions and summary
\* controls are shown only when the status is 'admin' or 'approved', the admin
\* panel only when it is 'admin'.
C33_SectionShownIsStatus ==
    (ev.op \in {"lookup", "signOut"} \/ (ev.op = "submit" /\ ev.ok)) =>
        /\ shown.section = SectionFor(getUserStatus)
        /\ (shown.input \/ shown.actions \/ shown.summary) => getUserStatus \in {"admin", "approved"}
        /\ shown.adminPanel => getUserStatus = "admin"

\* The request form is still shown when submitAccessRequest has succeeded.
C33_FormShownWhilePending ==
    /\ ev.op = "submit" /\ ev.ok
    /\ getUserStatus = "pending"
    /\ shown.section = "accessRequest"

\* The actions are shown on the login screen.
C33_ActionsShownSignedOut ==
    /\ ev.op = "lookup"
    /\ getUserStatus = "unauthenticated"
    /\ shown.section = "login"
    /\ shown.actions

\* The subscriptions of AdminComponent that deliver.
OpenAdminFeeds == {s \in 1..MaxFeeds : adminFeeds[s].state = "open"}

\* C34: AdminComponent holds at most one active access-request feed, and
\* whenever the current user is not the admin it holds none and its cached
\* list of requests is empty.
C34_NoAdminFeedUnlessAdmin ==
    /\ Cardinality(OpenAdminFeeds) <= 1
    /\ ~isAdmin => (OpenAdminFeeds = {} /\ adminUnsubscribe = 0 /\ accessRequests = <<>>)

\* Another user has signed in while the admin's feed is held, its list is
\* cached and the admin panel is shown.
C34_FeedHeldForAnotherUser ==
    /\ currentUser \notin {NULL, "admin"}
    /\ adminUnsubscribe # 0
    /\ accessRequests # <<>>
    /\ shown.adminPanel

\* The operations of the local-storage TodoApp.
LocalOperations == {"localAdd", "localToggle", "localDelete", "localClearCompleted", "localClearAll"}

C35_BlankWitness ==
    /\ ev.op = "localAdd"
    /\ ~ev.added
    /\ localTodos # <<>>

\* How many registrations of the callback a list holds.
Registrations(listeners, callback) == Cardinality({i \in 1..Len(listeners) : listeners[i] = callback})

\* C36: the function a registration returned removes that registration and
\* no other: its first call takes one registration of its callback out of its
\* registry and leaves every other callback's registrations alone, and its
\* second call changes nothing, also when the callback is registered twice.
C36_UnsubscribeRemovesOwnRegistration ==
    [][ev'.op = "unsubscribe" =>
          /\ \A c \in Callbacks \cup {"auth", "admin", "actions", "todoList"} :
                \/ c = handles[ev'.handle].callback /\ ~ev'.again
                \/ /\ Registrations(authStateListeners', c) = Registrations(authStateListeners, c)
                   /\ Registrations(todoListeners', c) = Registrations(todoListeners, c)
          /\ ~ev'.again =>
                Registrations(authStateListeners', handles[ev'.handle].callback)
                + Registrations(todoListeners', handles[ev'.handle].callback)
                = Registrations(authStateListeners, handles[ev'.handle].callback)
                  + Registrations(todoListeners, handles[ev'.handle].callback) - 1]_vars

\* The function of one registration was called twice and the callback's other
\* registration, whose function was never called, is gone with it.
C36_SecondCallRemovedAnother ==
    /\ ev.op = "unsubscribe" /\ ev.again
    /\ \E h \in 1..Len(handles) :
          /\ handles[h].called = "never"
          /\ handles[h].registry = "auth"
          /\ Registrations(authStateListeners, handles[h].callback) = 0


====
